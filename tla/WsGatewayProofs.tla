--------------------------- MODULE WsGatewayProofs ----------------------------
(***************************************************************************)
(* Proofs about WsGateway, for any finite set of clients, any ids and any  *)
(* limits: answers reach their askers, pending ids have owners, and the    *)
(* gauges are exact.                                                       *)
(***************************************************************************)
EXTENDS WsGateway, FiniteSetTheorems, TLAPS

USE LimitsPositive

-----------------------------------------------------------------------------
(* Types                                                                   *)

\* A part of the clients is finite, and counted by a natural number.
LEMMA PartsAreCounted ==
  ASSUME NEW S \in SUBSET Clients
  PROVE  IsFiniteSet(S) /\ Cardinality(S) \in Nat
  BY ClientsAreFinite, FS_Subset, FS_CardinalityType

\* Subtraction that saturates stays in Nat.
LEMMA LessIsNat ==
  ASSUME NEW n \in Nat, NEW k \in Nat
  PROVE  Less(n, k) \in Nat /\ (k <= n => Less(n, k) = n - k)
  BY DEF Less

LEMMA EventTypes ==
  /\ Note \in Event /\ Close \in Event /\ Answers \subseteq Event
  /\ \A e \in Event : e.kind = "answer" <=> e \in Answers
  /\ Note \notin Answers /\ Close \notin Answers
  /\ None \notin Answers /\ None \notin Owned /\ None \notin Message
  BY NoneIsNothing DEF Note, Close, Event, Answers

LEMMA GotoType ==
  ASSUME WsTypeOK, NEW c \in Clients, NEW from, NEW to, Goto(c, from, to),
         to \in {"refused", "checked", "uncounted", "open", "mangled", "leaving",
                 "removed", "gone"}
  PROVE  /\ conn' \in [Clients -> {"new", "refused", "checked", "uncounted", "open",
                                   "mangled", "leaving", "removed", "gone"}]
         /\ conn[c] = from /\ conn'[c] = to /\ relay # "exited"
         /\ \A d \in Clients \ {c} : conn'[d] = conn[d]
  BY DEF WsTypeOK, Goto

LEMMA WsInitially == WsInit => WsIInv
<1>. SUFFICES ASSUME WsInit PROVE WsIInv
  OBVIOUS
<1>. USE DEF WsInit
<1>1. WsTypeOK
  BY DEF WsTypeOK, MangledIds
<1>2. TasksFit
  BY DEF TasksFit, Attached
<1>3. Served = {} /\ Left = {}
  BY DEF Served, Left
<1>4. GaugesCount
  BY <1>3, FS_EmptySet DEF GaugesCount
<1>5. Mangled = {}
  BY DEF Mangled
<1>6. IdsAreUnique
  BY <1>5 DEF IdsAreUnique
<1>7. \A c \in Clients : AnswersAt(c) = {}
  BY DEF AnswersAt, Feed
<1>8. AnswersAreRouted
  BY <1>7 DEF AnswersAreRouted
<1>9. PendingIsOwned
  BY DEF PendingIsOwned
<1>. QED
  BY <1>1, <1>2, <1>4, <1>6, <1>8, <1>9 DEF WsIInv

\* What the relay's removal of clients leaves of the types.
LEMMA DropTypes ==
  ASSUME WsTypeOK, NEW S \in SUBSET clients, DropByRelay(S)
  PROVE  /\ clients' = clients \ S /\ clients' \subseteq Clients
         /\ dropped' = dropped \cup S /\ dropped' \subseteq Clients
         /\ {active', disconnects'} \subseteq Nat
<1>1. S \in SUBSET Clients /\ active \in Nat /\ disconnects \in Nat
  BY DEF WsTypeOK
<1>2. Cardinality(S) \in Nat
  BY <1>1, PartsAreCounted
<1>3. Less(active, Cardinality(S)) \in Nat
  BY <1>1, <1>2, LessIsNat
<1>. QED
  BY <1>1, <1>2, <1>3 DEF WsTypeOK, DropByRelay

LEMMA WithoutType ==
  ASSUME WsTypeOK, NEW S
  PROVE  /\ Without(S) \in [MangledIds -> Owned \cup {None}]
         /\ \A i \in MangledIds : Without(S)[i] \in {pending[i], None}
  BY DEF WsTypeOK, Without

LEMMA TaskTypes ==
  ASSUME WsTypeOK, TasksFit, NEW c \in Clients,
         \/ CheckLimit(c) \/ Register(c) \/ CountClient(c) \/ WriteEvent(c)
         \/ WriteToChild(c) \/ Leave(c) \/ RemoveClient(c) \/ PurgeClient(c)
  PROVE  WsTypeOK'
<1>. USE EventTypes DEF WsTypeOK, muxVars, metrics
<1>1. CASE CheckLimit(c)
  BY <1>1, GotoType DEF CheckLimit
<1>2. CASE Register(c)
  <2>. DEFINE n == IF early < ChanCap THEN early ELSE ChanCap
  <2>1. conn' \in [Clients -> {"new", "refused", "checked", "uncounted", "open",
                               "mangled", "leaving", "removed", "gone"}]
    BY <1>2, GotoType DEF Register
  <2>2. n \in -1..ChanCap
    OBVIOUS
  <2>3. [i \in 1..n |-> Note] \in Seq(Event) /\ Len([i \in 1..n |-> Note]) <= ChanCap
    <3>1. ASSUME NEW m \in Nat
          PROVE  [i \in 1..m |-> Note] \in Seq(Event) /\ Len([i \in 1..m |-> Note]) = m
      OBVIOUS
    <3>2. PICK m \in Nat : 1..n = 1..m /\ m <= ChanCap
      <4>1. CASE n = -1
        <5>1. 1..n = 1..0
          BY <4>1
        <5>. QED
          BY <5>1
      <4>2. CASE n # -1
        BY <2>2, <4>2
      <4>. QED
        BY <4>1, <4>2
    <3>. HIDE DEF n
    <3>3. [i \in 1..n |-> Note] = [i \in 1..m |-> Note]
      BY <3>2
    <3>. QED
      BY <3>1, <3>2, <3>3
  <2>4. chan' = [chan EXCEPT ![c] = [i \in 1..n |-> Note]]
    BY <1>2 DEF Register
  <2>. HIDE DEF n
  <2>5. chan' \in [Clients -> Seq(Event)] /\ \A d \in Clients : Len(chan'[d]) <= ChanCap
    BY <2>3, <2>4
  <2>6. pressed' \subseteq clients' /\ clients' \subseteq Clients /\ early' \in -1..EarlyCap
    BY <1>2 DEF Register
  <2>. QED
    BY <1>2, <2>1, <2>5, <2>6 DEF Register
<1>3. CASE CountClient(c)
  BY <1>3, GotoType DEF CountClient
<1>4. CASE WriteEvent(c)
  <2>1. conn' \in [Clients -> {"new", "refused", "checked", "uncounted", "open",
                               "mangled", "leaving", "removed", "gone"}]
    BY <1>4, GotoType DEF WriteEvent
  <2>2. /\ Head(chan[c]) \in Event /\ Tail(chan[c]) \in Seq(Event)
        /\ Len(Tail(chan[c])) <= ChanCap
    BY <1>4 DEF WriteEvent
  <2>3. chan' \in [Clients -> Seq(Event)] /\ \A d \in Clients : Len(chan'[d]) <= ChanCap
    BY <1>4, <2>2 DEF WriteEvent
  <2>4. got' \in [Clients -> Seq(Event)]
    BY <1>4, <2>2 DEF WriteEvent
  <2>. QED
    BY <1>4, <2>1, <2>3, <2>4 DEF WriteEvent
<1>5. CASE WriteToChild(c)
  <2>1. conn' \in [Clients -> {"new", "refused", "checked", "uncounted", "open",
                               "mangled", "leaving", "removed", "gone"}]
        /\ conn[c] = "mangled"
    BY <1>5, GotoType DEF WriteToChild
  <2>2. frame[c] \in Message
    BY <2>1 DEF TasksFit
  <2>. QED
    BY <1>5, <2>1, <2>2 DEF WriteToChild
<1>6. CASE Leave(c)
  BY <1>6, GotoType DEF Leave
<1>7. CASE RemoveClient(c)
  BY <1>7, GotoType DEF RemoveClient
<1>8. CASE PurgeClient(c)
  <2>1. conn' \in [Clients -> {"new", "refused", "checked", "uncounted", "open",
                               "mangled", "leaving", "removed", "gone"}]
    BY <1>8, GotoType DEF PurgeClient
  <2>2. pending' \in [MangledIds -> Owned \cup {None}]
    BY <1>8, WithoutType DEF PurgeClient, AfterDisconnect
  <2>3. Less(active, 1) \in Nat
    BY LessIsNat
  <2>. QED
    BY <1>8, <2>1, <2>2, <2>3 DEF PurgeClient
<1>. QED
  BY <1>1, <1>2, <1>3, <1>4, <1>5, <1>6, <1>7, <1>8

LEMMA MangleTypes ==
  ASSUME WsTypeOK, NEW c \in Clients, NEW o \in OrigIds,
         NEW kind \in {"request", "response"}, Mangle(c, o, kind)
  PROVE  /\ WsTypeOK'
         /\ nextId \in MangledIds /\ nextId' = nextId + 1 /\ inbox' = inbox
         /\ frame'[c] = [id |-> nextId, kind |-> kind, from |-> [client |-> c, orig |-> o]]
         /\ frame'[c] \in Message
         /\ \A d \in Clients \ {c} : frame'[d] = frame[d]
         /\ pending'[nextId] = frame'[c].from /\ pending'[nextId].client = c
         /\ \A i \in MangledIds \ {nextId} : pending'[i] = pending[i]
<1>1. nextId \in MangledIds
  BY DEF Mangle, WsTypeOK, MangledIds
<1>2. [client |-> c, orig |-> o] \in Owned
      /\ [id |-> nextId, kind |-> kind, from |-> [client |-> c, orig |-> o]] \in Message
  BY <1>1 DEF Owned, Message
<1>3. nextId + 1 \in 1..(MaxId + 1)
  BY <1>1 DEF MangledIds
<1>4. conn' \in [Clients -> {"new", "refused", "checked", "uncounted", "open",
                             "mangled", "leaving", "removed", "gone"}]
  BY GotoType DEF Mangle
<1>5. pending' \in [MangledIds -> Owned \cup {None}] /\ frame' \in [Clients -> Message \cup {None}]
  BY <1>2 DEF Mangle, WsTypeOK
<1>6. WsTypeOK'
  BY <1>3, <1>4, <1>5 DEF Mangle, NextIdAfter, WsTypeOK, metrics
<1>. QED
  BY <1>1, <1>2, <1>6 DEF Mangle, NextIdAfter, WsTypeOK

LEMMA RelayTypes ==
  ASSUME WsTypeOK,
         \/ \E m \in inbox : Unmangle(m)
         \/ \E late \in BOOLEAN : Deliver(late)
         \/ \E gone \in SUBSET clients : Broadcast(gone)
         \/ BufferEarly \/ CloseAllClients \/ Exit
  PROVE  WsTypeOK'
<1>. USE EventTypes DEF WsTypeOK, muxVars, metrics
<1>. Full \subseteq clients /\ \A c \in Clients : Len(chan[c]) \in Nat
  BY DEF Full
<1>1. ASSUME NEW m \in inbox, Unmangle(m) PROVE WsTypeOK'
  <2>1. m \in Message /\ m.id \in MangledIds
    BY DEF Message
  <2>2. pending[m.id] # None => Answer(pending[m.id], m) \in Answers
    BY <2>1 DEF Answer, Answers
  <2>. QED
    BY <1>1, <2>1, <2>2 DEF Unmangle, AfterLookup
<1>2. ASSUME NEW late \in BOOLEAN, Deliver(late) PROVE WsTypeOK'
  <2>. DEFINE c == answer.to.client
  <2>1. answer \in Event /\ c \in Clients
    BY <1>2 DEF Deliver, Answers, Owned
  <2>2. CASE /\ c \in clients \ Full
             /\ chan' = [chan EXCEPT ![c] = Append(@, answer)]
             /\ pressed' = pressed \ {c}
             /\ UNCHANGED <<clients, dropped, metrics, pending>>
    <3>1. Len(chan[c]) < ChanCap
      BY <2>2 DEF Full, HasRoom
    <3>2. Append(chan[c], answer) \in Seq(Event) /\ Len(Append(chan[c], answer)) <= ChanCap
      BY <2>1, <3>1
    <3>. QED
      BY <1>2, <2>1, <2>2, <3>2 DEF Deliver
  <2>3. CASE /\ c \in Full /\ (late => c \in Overdue)
             /\ pressed' = IF late THEN pressed \ {c} ELSE pressed \cup {c}
             /\ DropByRelay(IF late THEN {c} ELSE {})
             /\ pending' = Without(IF late THEN {c} ELSE {})
             /\ UNCHANGED chan
    <3>1. (IF late THEN {c} ELSE {}) \in SUBSET clients
      BY <2>3
    <3>2. /\ clients' = clients \ (IF late THEN {c} ELSE {}) /\ clients' \subseteq Clients
          /\ dropped' \subseteq Clients
          /\ {active', disconnects'} \subseteq Nat
      BY <2>3, <3>1, DropTypes
    <3>3. pending' \in [MangledIds -> Owned \cup {None}]
      BY <2>3, WithoutType
    <3>4. pressed' \subseteq clients'
      BY <2>3, <3>2
    <3>. QED
      BY <1>2, <2>1, <2>3, <3>2, <3>3, <3>4 DEF Deliver
  <2>4. CASE /\ c \notin clients
             /\ UNCHANGED <<clients, chan, pressed, dropped, metrics, pending>>
    BY <1>2, <2>4 DEF Deliver
  <2>. QED
    BY <1>2, <2>2, <2>3, <2>4 DEF Deliver
<1>3. ASSUME NEW e \in {Note, Close},
             chan' = [c \in Clients |->
                       IF c \in clients \ Full THEN Append(chan[c], e) ELSE chan[c]]
      PROVE  chan' \in [Clients -> Seq(Event)] /\ \A c \in Clients : Len(chan'[c]) <= ChanCap
  <2>1. ASSUME NEW c \in Clients PROVE chan'[c] \in Seq(Event) /\ Len(chan'[c]) <= ChanCap
    <3>1. CASE c \in clients \ Full
      BY <1>3, <3>1 DEF Full, HasRoom
    <3>2. CASE c \notin clients \ Full
      BY <1>3, <3>2
    <3>. QED
      BY <3>1, <3>2
  <2>. QED
    BY <1>3, <2>1
<1>4. ASSUME NEW gone \in SUBSET clients, Broadcast(gone) PROVE WsTypeOK'
  <2>1. chan' \in [Clients -> Seq(Event)] /\ \A c \in Clients : Len(chan'[c]) <= ChanCap
    BY <1>3, <1>4 DEF Broadcast
  <2>2. /\ clients' = clients \ gone /\ clients' \subseteq Clients /\ dropped' \subseteq Clients
        /\ {active', disconnects'} \subseteq Nat
    BY <1>4, DropTypes DEF Broadcast
  <2>3. pending' \in [MangledIds -> Owned \cup {None}]
    BY <1>4, WithoutType DEF Broadcast
  <2>4. pressed' \subseteq clients'
    BY <1>4, <2>2 DEF Broadcast
  <2>. QED
    BY <1>4, <2>1, <2>2, <2>3, <2>4 DEF Broadcast
<1>5. CASE CloseAllClients
  <2>1. chan' \in [Clients -> Seq(Event)] /\ \A c \in Clients : Len(chan'[c]) <= ChanCap
    BY <1>3, <1>5 DEF CloseAllClients
  <2>2. /\ clients' \subseteq Clients /\ dropped' \subseteq Clients
        /\ {active', disconnects'} \subseteq Nat
    BY <1>5, DropTypes DEF CloseAllClients
  <2>3. pending' \in [MangledIds -> Owned \cup {None}]
    BY <1>5, WithoutType DEF CloseAllClients
  <2>. QED
    BY <1>5, <2>1, <2>2, <2>3 DEF CloseAllClients
<1>6. CASE BufferEarly
  BY <1>6 DEF BufferEarly
<1>7. CASE Exit
  BY <1>7 DEF Exit
<1>. QED
  BY <1>1, <1>2, <1>4, <1>5, <1>6, <1>7
-----------------------------------------------------------------------------
(* Tasks, gauges and owners                                                *)

\* Whatever the relay does, it removes some clients that are registered and
\* counted (none, in most cases), moves the metrics by as many, and takes ids
\* out of the multiplexer at most.
LEMMA RelayEffect ==
  ASSUME WsTypeOK,
         \/ \E m \in inbox : Unmangle(m)
         \/ \E late \in BOOLEAN : Deliver(late)
         \/ \E gone \in SUBSET clients : Broadcast(gone)
         \/ BufferEarly \/ CloseAllClients \/ Exit
  PROVE  /\ UNCHANGED <<conn, got, nextId, frame, inbox>>
         /\ \A i \in MangledIds : pending'[i] \in {pending[i], None}
         /\ relay' = "running" => relay = "running"
         /\ \E S \in SUBSET clients :
              /\ clients' = clients \ S /\ dropped' = dropped \cup S
              /\ active' = Less(active, Cardinality(S))
              /\ disconnects' = disconnects + Cardinality(S)
              /\ relay' = "running" => \A c \in S : conn[c] # "uncounted"
<1>. USE DEF muxVars, metrics, DropByRelay
<1>1. active \in Nat /\ disconnects \in Nat /\ Cardinality({}) = 0
  BY FS_EmptySet DEF WsTypeOK
<1>2. /\ clients = clients \ {} /\ dropped = dropped \cup {} /\ {} \in SUBSET clients
      /\ active = Less(active, Cardinality({})) /\ disconnects = disconnects + Cardinality({})
  BY <1>1 DEF Less
<1>3. ASSUME NEW S \in SUBSET clients, pending' = Without(S)
      PROVE  \A i \in MangledIds : pending'[i] \in {pending[i], None}
  BY <1>3, WithoutType
<1>4. ASSUME NEW m \in inbox, Unmangle(m)
      PROVE  /\ UNCHANGED <<conn, got, nextId, frame, inbox, clients, dropped, active,
                            disconnects, relay>>
             /\ \A i \in MangledIds : pending'[i] \in {pending[i], None}
  BY <1>4 DEF Unmangle, AfterLookup, WsTypeOK
<1>5. ASSUME NEW late \in BOOLEAN, Deliver(late)
      PROVE  /\ UNCHANGED <<conn, got, nextId, frame, inbox, relay>>
             /\ \/ UNCHANGED <<clients, dropped, active, disconnects, pending>>
                \/ \E S \in SUBSET clients :
                     /\ DropByRelay(S) /\ pending' = Without(S)
                     /\ \A c \in S : conn[c] # "uncounted"
  <2>. DEFINE S == IF late THEN {answer.to.client} ELSE {}
  <2>1. UNCHANGED <<conn, got, nextId, frame, inbox, relay>>
    BY <1>5 DEF Deliver
  <2>2. CASE UNCHANGED <<clients, dropped, metrics, pending>>
    BY <2>1, <2>2
  <2>3. CASE /\ answer.to.client \in Full /\ (late => answer.to.client \in Overdue)
             /\ DropByRelay(S) /\ pending' = Without(S)
    <3>1. S \in SUBSET clients /\ \A c \in S : conn[c] # "uncounted"
      BY <2>3 DEF Full, Overdue
    <3>. QED
      BY <2>1, <2>3, <3>1
  <2>. QED
    BY <1>5, <2>2, <2>3 DEF Deliver
<1>6. ASSUME NEW gone \in SUBSET clients, Broadcast(gone)
      PROVE  /\ UNCHANGED <<conn, got, nextId, frame, inbox, relay>>
             /\ DropByRelay(gone) /\ pending' = Without(gone)
             /\ \A c \in gone : conn[c] # "uncounted"
  BY <1>6 DEF Broadcast, Overdue
<1>7. CASE CloseAllClients
  BY <1>3, <1>7 DEF CloseAllClients
<1>8. CASE BufferEarly \/ Exit
  BY <1>2, <1>8 DEF BufferEarly, Exit
<1>9. CASE \E m \in inbox : Unmangle(m)
  BY <1>2, <1>4, <1>9
<1>10. CASE \E late \in BOOLEAN : Deliver(late)
  BY <1>2, <1>3, <1>5, <1>10
<1>11. CASE \E gone \in SUBSET clients : Broadcast(gone)
  BY <1>3, <1>6, <1>11
<1>. QED
  BY <1>7, <1>8, <1>9, <1>10, <1>11

\* Mangling leaves a message to be written.
LEMMA MangleEffect ==
  ASSUME WsTypeOK, NEW c \in Clients, NEW o \in OrigIds,
         NEW kind \in {"request", "response"}, Mangle(c, o, kind)
  PROVE  /\ UNCHANGED <<relay, dropped, got, clients, active, disconnects>>
         /\ \A d \in Clients \ {c} : conn'[d] = conn[d] /\ frame'[d] = frame[d]
         /\ conn[c] = "open" /\ conn'[c] = "mangled" /\ frame'[c] # None
<1>1. frame'[c] # None
  <2>1. nextId \in MangledIds /\ [client |-> c, orig |-> o] \in Owned
    BY DEF Mangle, WsTypeOK, MangledIds, Owned
  <2>2. [id |-> nextId, kind |-> kind, from |-> [client |-> c, orig |-> o]] \in Message
    BY <2>1 DEF Message
  <2>. QED
    BY <2>2, EventTypes DEF Mangle, WsTypeOK
<1>3. \A d \in Clients \ {c} : frame'[d] = frame[d]
  BY DEF Mangle, WsTypeOK
<1>2. conn[c] = "open" /\ conn'[c] = "mangled" /\ \A d \in Clients \ {c} : conn'[d] = conn[d]
  BY GotoType DEF Mangle
<1>. QED
  BY <1>1, <1>2, <1>3, EventTypes DEF Mangle, metrics

\* What one step of a task does to the task's own place and to the map.
LEMMA TaskEffect ==
  ASSUME WsTypeOK, TasksFit, NEW c \in Clients,
         \/ CheckLimit(c) \/ Register(c) \/ CountClient(c) \/ WriteEvent(c)
         \/ WriteToChild(c) \/ Leave(c) \/ RemoveClient(c) \/ PurgeClient(c)
         \/ \E o \in OrigIds, kind \in {"request", "response"} : Mangle(c, o, kind)
  PROVE  /\ UNCHANGED <<relay, dropped>>
         /\ \A d \in Clients \ {c} : conn'[d] = conn[d] /\ frame'[d] = frame[d]
                                    /\ got'[d] = got[d]
         /\ \/ /\ CheckLimit(c) /\ conn[c] = "new" /\ conn'[c] \in {"refused", "checked"}
               /\ UNCHANGED <<got, clients, active, disconnects>>
            \/ /\ Register(c) /\ conn[c] = "checked" /\ conn'[c] = "uncounted"
               /\ clients' = clients \cup {c} /\ UNCHANGED <<got, active, disconnects>>
            \/ /\ CountClient(c) /\ conn[c] = "uncounted" /\ conn'[c] = "open"
               /\ active' = active + 1 /\ UNCHANGED <<clients, disconnects>>
            \/ /\ conn[c] \in {"open", "mangled"}
               /\ conn'[c] \in {"open", "mangled", "leaving"}
               /\ conn'[c] = "mangled" => frame'[c] # None
               /\ UNCHANGED <<clients, active, disconnects>>
            \/ /\ RemoveClient(c) /\ conn[c] = "leaving"
               /\ conn'[c] = IF c \in clients THEN "removed" ELSE "gone"
               /\ clients' = clients \ {c} /\ UNCHANGED <<active, disconnects>>
            \/ /\ PurgeClient(c) /\ conn[c] = "removed" /\ conn'[c] = "gone"
               /\ active' = Less(active, 1) /\ disconnects' = disconnects + 1
               /\ UNCHANGED clients
<1>. USE DEF muxVars, metrics
<1>1. CASE CheckLimit(c)
  BY <1>1, GotoType DEF CheckLimit
<1>2. CASE Register(c)
  BY <1>2, GotoType DEF Register
<1>3. CASE CountClient(c)
  BY <1>3, GotoType DEF CountClient
<1>4. CASE WriteEvent(c)
  BY <1>4, GotoType DEF WriteEvent, WsTypeOK
<1>5. CASE WriteToChild(c)
  BY <1>5, GotoType DEF WriteToChild, WsTypeOK
<1>6. CASE Leave(c)
  BY <1>6, GotoType DEF Leave
<1>7. CASE RemoveClient(c)
  BY <1>7, GotoType DEF RemoveClient, Counts
<1>8. CASE PurgeClient(c)
  BY <1>8, GotoType DEF PurgeClient
<1>9. ASSUME NEW o \in OrigIds, NEW kind \in {"request", "response"}, Mangle(c, o, kind)
      PROVE  /\ UNCHANGED <<relay, dropped, got, clients, active, disconnects>>
             /\ \A d \in Clients \ {c} : conn'[d] = conn[d] /\ frame'[d] = frame[d]
             /\ conn[c] = "open" /\ conn'[c] = "mangled" /\ frame'[c] # None
  BY <1>9, MangleEffect
<1>. QED
  BY <1>1, <1>2, <1>3, <1>4, <1>5, <1>6, <1>7, <1>8, <1>9

LEMMA TasksStep ==
  ASSUME WsTypeOK, TasksFit, WsNext, WsTypeOK'
  PROVE  TasksFit'
<1>. USE DEF TasksFit, Attached, WsTypeOK
<1>1. ASSUME NEW c \in Clients,
             \/ CheckLimit(c) \/ Register(c) \/ CountClient(c) \/ WriteEvent(c)
             \/ WriteToChild(c) \/ Leave(c) \/ RemoveClient(c) \/ PurgeClient(c)
             \/ \E o \in OrigIds, kind \in {"request", "response"} : Mangle(c, o, kind)
      PROVE  TasksFit'
  <2>1. /\ UNCHANGED <<relay, dropped>> /\ c \in Clients
        /\ \A d \in Clients \ {c} : conn'[d] = conn[d] /\ frame'[d] = frame[d]
                                   /\ got'[d] = got[d]
    BY <1>1, TaskEffect
  <2>2. CASE conn[c] = "new" /\ conn'[c] \in {"refused", "checked"} /\ UNCHANGED <<got, clients>>
    BY <2>1, <2>2
  <2>3. CASE conn[c] = "checked" /\ conn'[c] = "uncounted" /\ clients' = clients \cup {c}
    BY <2>1, <2>3
  <2>4. CASE conn[c] = "uncounted" /\ conn'[c] = "open" /\ UNCHANGED clients
    BY <2>1, <2>4
  <2>5. CASE /\ conn[c] \in {"open", "mangled"} /\ conn'[c] \in {"open", "mangled", "leaving"}
             /\ conn'[c] = "mangled" => frame'[c] # None
             /\ UNCHANGED clients
    BY <2>1, <2>5
  <2>6. CASE /\ conn[c] = "leaving" /\ conn'[c] \in {"removed", "gone"}
             /\ clients' = clients \ {c}
    BY <2>1, <2>6
  <2>7. CASE conn[c] = "removed" /\ conn'[c] = "gone" /\ UNCHANGED clients
    BY <2>1, <2>7
  <2>. QED
    BY <1>1, <2>2, <2>3, <2>4, <2>5, <2>6, <2>7, TaskEffect
<1>2. CASE \/ \E m \in inbox : Unmangle(m)
           \/ \E late \in BOOLEAN : Deliver(late)
           \/ \E gone \in SUBSET clients : Broadcast(gone)
           \/ BufferEarly \/ CloseAllClients \/ Exit
  <2>1. PICK S \in SUBSET clients :
           /\ clients' = clients \ S /\ dropped' = dropped \cup S
           /\ relay' = "running" => \A c \in S : conn[c] # "uncounted"
    BY <1>2, RelayEffect
  <2>2. UNCHANGED <<conn, got, frame>> /\ (relay' = "running" => relay = "running")
    BY <1>2, RelayEffect
  <2>. QED
    BY <2>1, <2>2
<1>. QED
  BY <1>1, <1>2 DEF WsNext
\* The clients a gauge counts are finite in number.
LEMMA CountedAreFinite ==
  /\ IsFiniteSet(Served) /\ IsFiniteSet(Left)
  /\ Cardinality(Served) \in Nat /\ Cardinality(Left) \in Nat
<1>1. Served \in SUBSET Clients /\ Left \in SUBSET Clients
  BY DEF Served, Left
<1>. QED
  BY <1>1, PartsAreCounted

LEMMA GaugesStep ==
  ASSUME WsTypeOK, TasksFit, GaugesCount, WsNext
  PROVE  GaugesCount'
<1>. SUFFICES ASSUME relay' = "running"
     PROVE  active' = Cardinality(Served') /\ disconnects' = Cardinality(Left')
  BY DEF GaugesCount
<1>. USE DEF WsTypeOK, TasksFit, Attached, Served, Left
<1>1. active \in Nat /\ disconnects \in Nat
  OBVIOUS
<1>2. ASSUME NEW c \in Clients,
             \/ CheckLimit(c) \/ Register(c) \/ CountClient(c) \/ WriteEvent(c)
             \/ WriteToChild(c) \/ Leave(c) \/ RemoveClient(c) \/ PurgeClient(c)
             \/ \E o \in OrigIds, kind \in {"request", "response"} : Mangle(c, o, kind)
      PROVE  active' = Cardinality(Served') /\ disconnects' = Cardinality(Left')
  <2>1. /\ relay = "running" /\ \A d \in Clients \ {c} : conn'[d] = conn[d]
        /\ active = Cardinality(Served) /\ disconnects = Cardinality(Left)
    BY <1>2, TaskEffect DEF GaugesCount
  <2>2. CASE /\ conn[c] = "new" /\ conn'[c] \in {"refused", "checked"}
             /\ UNCHANGED <<clients, active, disconnects>>
    <3>1. Served' = Served /\ Left' = Left
      BY <2>1, <2>2
    <3>. QED
      BY <2>1, <2>2, <3>1
  <2>3. CASE /\ conn[c] = "checked" /\ conn'[c] = "uncounted"
             /\ clients' = clients \cup {c} /\ UNCHANGED <<active, disconnects>>
    <3>1. Served' = Served /\ Left' = Left
      BY <2>1, <2>3
    <3>. QED
      BY <2>1, <2>3, <3>1
  <2>4. CASE /\ conn[c] = "uncounted" /\ conn'[c] = "open"
             /\ active' = active + 1 /\ UNCHANGED <<clients, disconnects>>
    <3>1. Served' = Served \cup {c} /\ c \notin Served /\ Left' = Left
      BY <2>1, <2>4
    <3>. HIDE DEF Served, Left
    <3>. QED
      BY <2>1, <2>4, <3>1, CountedAreFinite, FS_AddElement
  <2>5. CASE /\ conn[c] \in {"open", "mangled"} /\ conn'[c] \in {"open", "mangled", "leaving"}
             /\ UNCHANGED <<clients, active, disconnects>>
    <3>1. Served' = Served /\ Left' = Left
      BY <2>1, <2>5
    <3>. QED
      BY <2>1, <2>5, <3>1
  <2>6. CASE /\ conn[c] = "leaving" /\ conn'[c] = IF c \in clients THEN "removed" ELSE "gone"
             /\ clients' = clients \ {c} /\ UNCHANGED <<active, disconnects>>
    <3>1. Served' = Served /\ Left' = Left
      BY <2>1, <2>6
    <3>. QED
      BY <2>1, <2>6, <3>1
  <2>7. CASE /\ conn[c] = "removed" /\ conn'[c] = "gone" /\ UNCHANGED clients
             /\ active' = Less(active, 1) /\ disconnects' = disconnects + 1
    <3>1. /\ Served' = Served \ {c} /\ c \in Served
          /\ Left' = Left \cup {c} /\ c \notin Left
      BY <2>1, <2>7
    <3>. HIDE DEF Served, Left
    <3>2. Cardinality(Served') = Cardinality(Served) - 1 /\ Cardinality(Served') \in Nat
      BY <3>1, CountedAreFinite, FS_RemoveElement, FS_CardinalityType
    <3>3. Cardinality(Left') = Cardinality(Left) + 1
      BY <3>1, CountedAreFinite, FS_AddElement
    <3>4. active' = active - 1
      BY <2>1, <2>7, <3>2, CountedAreFinite DEF Less
    <3>. QED
      BY <2>1, <2>7, <3>2, <3>3, <3>4
  <2>. QED
    BY <1>2, <2>2, <2>3, <2>4, <2>5, <2>6, <2>7, TaskEffect
<1>3. CASE \/ \E m \in inbox : Unmangle(m)
           \/ \E late \in BOOLEAN : Deliver(late)
           \/ \E gone \in SUBSET clients : Broadcast(gone)
           \/ BufferEarly \/ CloseAllClients \/ Exit
  <2>1. /\ relay = "running" /\ UNCHANGED conn
        /\ active = Cardinality(Served) /\ disconnects = Cardinality(Left)
    BY <1>3, RelayEffect DEF GaugesCount
  <2>2. PICK S \in SUBSET clients :
           /\ clients' = clients \ S
           /\ active' = Less(active, Cardinality(S))
           /\ disconnects' = disconnects + Cardinality(S)
           /\ \A c \in S : conn[c] # "uncounted"
    BY <1>3, RelayEffect
  <2>3. Served' = Served \ S /\ Served \cap S = S /\ Left' = Left \cup S /\ Left \cap S = {}
    BY <2>1, <2>2
  <2>4. IsFiniteSet(S) /\ Cardinality(S) \in Nat
    BY PartsAreCounted
  <2>. HIDE DEF Served, Left
  <2>5. Cardinality(Served') = Cardinality(Served) - Cardinality(S) /\ Cardinality(Served') \in Nat
    BY <2>3, CountedAreFinite, FS_Difference, FS_CardinalityType
  <2>6. Cardinality(Left') = Cardinality(Left) + Cardinality(S)
    <3>1. Cardinality(Left \cup S) = Cardinality(Left) + Cardinality(S) - Cardinality(Left \cap S)
      BY <2>4, CountedAreFinite, FS_Union
    <3>2. Cardinality(Left \cap S) = 0
      BY <2>3, FS_EmptySet
    <3>3. Cardinality(Left') = Cardinality(Left \cup S)
      BY <2>3
    <3>. QED
      BY <2>4, <3>1, <3>2, <3>3, CountedAreFinite
  <2>7. active' = active - Cardinality(S)
    BY <2>1, <2>2, <2>4, <2>5, CountedAreFinite DEF Less
  <2>. QED
    BY <2>1, <2>2, <2>5, <2>6, <2>7
<1>. QED
  BY <1>2, <1>3 DEF WsNext

LEMMA OwnedStep ==
  ASSUME WsTypeOK, TasksFit, PendingIsOwned, WsNext
  PROVE  PendingIsOwned'
<1>. USE DEF PendingIsOwned
<1>1. \A i \in MangledIds : pending[i] # None => pending[i].client \in Clients
  BY DEF WsTypeOK, Owned
<1>2. ASSUME NEW c \in Clients, PurgeClient(c) PROVE PendingIsOwned'
  <2>1. pending' = Without({c}) /\ dropped' = dropped
        /\ \A d \in Clients \ {c} : conn'[d] = conn[d]
    BY <1>2, GotoType DEF PurgeClient, AfterDisconnect
  <2>2. \A i \in MangledIds : pending'[i] # None => pending'[i] = pending[i] /\ pending[i].client # c
    BY <2>1 DEF Without
  <2>. QED
    BY <1>1, <2>1, <2>2
<1>3. ASSUME NEW c \in Clients, NEW o \in OrigIds,
             NEW kind \in {"request", "response"}, Mangle(c, o, kind)
      PROVE  PendingIsOwned'
  <2>1. /\ \A d \in Clients : conn'[d] = "gone" <=> conn[d] = "gone"
        /\ conn'[c] = "mangled" /\ dropped' = dropped
    BY <1>3, GotoType DEF Mangle
  <2>2. pending'[nextId].client = c /\ \A i \in MangledIds \ {nextId} : pending'[i] = pending[i]
    BY <1>3, MangleTypes
  <2>. QED
    BY <1>1, <2>1, <2>2
<1>4. ASSUME NEW c \in Clients, RemoveClient(c) PROVE PendingIsOwned'
  <2>1. /\ pending' = pending /\ dropped' = dropped
        /\ \A d \in Clients \ {c} : conn'[d] = conn[d]
        /\ conn'[c] = "gone" => c \in dropped
    BY <1>4, GotoType DEF RemoveClient, Counts, muxVars, TasksFit, Attached
  <2>. QED
    BY <1>1, <2>1
<1>5. ASSUME NEW c \in Clients,
             \/ CheckLimit(c) \/ Register(c) \/ CountClient(c) \/ WriteEvent(c)
             \/ WriteToChild(c) \/ Leave(c)
      PROVE  PendingIsOwned'
  <2>1. /\ pending' = pending /\ dropped' = dropped
        /\ \A d \in Clients : conn'[d] = "gone" => conn[d] = "gone"
    BY <1>5, GotoType
       DEF CheckLimit, Register, CountClient, WriteEvent, WriteToChild, Leave, muxVars
  <2>. QED
    BY <1>1, <2>1
<1>6. CASE \/ \E m \in inbox : Unmangle(m)
           \/ \E late \in BOOLEAN : Deliver(late)
           \/ \E gone \in SUBSET clients : Broadcast(gone)
           \/ BufferEarly \/ CloseAllClients \/ Exit
  <2>1. conn' = conn /\ dropped \subseteq dropped'
        /\ \A i \in MangledIds : pending'[i] \in {pending[i], None}
    BY <1>6, RelayEffect
  <2>. QED
    BY <2>1
<1>. QED
  BY <1>2, <1>3, <1>4, <1>5, <1>6 DEF WsNext
-----------------------------------------------------------------------------
(* Ids and answers                                                         *)

LEMMA MangledTypes ==
  ASSUME WsTypeOK
  PROVE  \A m \in Mangled : m \in Message /\ m.id \in MangledIds
  BY DEF WsTypeOK, Mangled, Message

\* Without a new id the multiplexer only forgets.
LEMMA IdsKept ==
  ASSUME WsTypeOK, IdsAreUnique, nextId' = nextId, Mangled' \subseteq Mangled,
         \A i \in MangledIds : pending'[i] \in {pending[i], None}
  PROVE  IdsAreUnique'
  BY MangledTypes DEF IdsAreUnique

LEMMA IdsStep ==
  ASSUME WsTypeOK, TasksFit, IdsAreUnique, WsNext
  PROVE  IdsAreUnique'
<1>1. ASSUME NEW c \in Clients, NEW o \in OrigIds,
             NEW kind \in {"request", "response"}, Mangle(c, o, kind)
      PROVE  IdsAreUnique'
  <2>1. /\ nextId \in MangledIds /\ nextId' = nextId + 1 /\ inbox' = inbox
        /\ frame'[c].id = nextId /\ pending'[nextId] = frame'[c].from
        /\ \A d \in Clients \ {c} : frame'[d] = frame[d]
        /\ \A i \in MangledIds \ {nextId} : pending'[i] = pending[i]
    <3>. DEFINE m == [id |-> nextId, kind |-> kind, from |-> [client |-> c, orig |-> o]]
    <3>1. nextId \in MangledIds
      BY <1>1 DEF Mangle, WsTypeOK, MangledIds
    <3>2. nextId' = nextId + 1 /\ inbox' = inbox
      BY <1>1 DEF Mangle, NextIdAfter
    <3>3. frame'[c] = m /\ \A d \in Clients \ {c} : frame'[d] = frame[d]
      BY <1>1 DEF Mangle, WsTypeOK
    <3>4. pending'[nextId] = m.from /\ \A i \in MangledIds \ {nextId} : pending'[i] = pending[i]
      BY <1>1, <3>1 DEF Mangle, WsTypeOK
    <3>. QED
      BY <3>1, <3>2, <3>3, <3>4
  <2>2. Mangled' \subseteq Mangled \cup {frame'[c]}
    BY <2>1 DEF Mangled
  <2>3. \A m \in Mangled : /\ m.id \in MangledIds /\ m.id < nextId /\ m.id \in Nat
                           /\ pending[m.id] \in {None, m.from}
    BY MangledTypes DEF IdsAreUnique, MangledIds
  <2>4. nextId \in Nat
    BY <2>1 DEF MangledIds
  <2>5. \A m \in Mangled' : m.id < nextId' /\ pending'[m.id] \in {None, m.from}
    BY <2>1, <2>2, <2>3, <2>4
  <2>6. \A m, n \in Mangled' : m.id = n.id => m = n
    BY <2>1, <2>2, <2>3, <2>4 DEF IdsAreUnique
  <2>. QED
    BY <2>5, <2>6 DEF IdsAreUnique
<1>2. ASSUME NEW c \in Clients, WriteToChild(c) PROVE IdsAreUnique'
  <2>1. frame[c] # None
    BY <1>2, GotoType DEF WriteToChild, TasksFit
  <2>2. /\ inbox' \subseteq inbox \cup {frame[c]} /\ nextId' = nextId /\ pending' = pending
        /\ \A d \in Clients : frame'[d] \in {frame[d], None}
    BY <1>2 DEF WriteToChild, WsTypeOK
  <2>3. Mangled' \subseteq Mangled
    BY <2>1, <2>2 DEF Mangled
  <2>. QED
    BY <2>2, <2>3, IdsKept
<1>3. ASSUME NEW c \in Clients,
             \/ CheckLimit(c) \/ Register(c) \/ CountClient(c) \/ WriteEvent(c)
             \/ Leave(c) \/ RemoveClient(c) \/ PurgeClient(c)
      PROVE  IdsAreUnique'
  <2>1. /\ UNCHANGED <<nextId, frame, inbox>>
        /\ \A i \in MangledIds : pending'[i] \in {pending[i], None}
    BY <1>3, WithoutType DEF CheckLimit, Register, CountClient, WriteEvent, Leave,
         RemoveClient, PurgeClient, AfterDisconnect, muxVars
  <2>2. Mangled' = Mangled
    BY <2>1 DEF Mangled
  <2>. QED
    BY <2>1, <2>2, IdsKept
<1>4. CASE \/ \E m \in inbox : Unmangle(m)
           \/ \E late \in BOOLEAN : Deliver(late)
           \/ \E gone \in SUBSET clients : Broadcast(gone)
           \/ BufferEarly \/ CloseAllClients \/ Exit
  <2>1. /\ UNCHANGED <<nextId, frame, inbox>>
        /\ \A i \in MangledIds : pending'[i] \in {pending[i], None}
    BY <1>4, RelayEffect
  <2>2. Mangled' = Mangled
    BY <2>1 DEF Mangled
  <2>. QED
    BY <2>1, <2>2, IdsKept
<1>. QED
  BY <1>1, <1>2, <1>3, <1>4 DEF WsNext

\* What happens to a feed when its head is written, and when it grows.
LEMMA HandOver ==
  ASSUME NEW S, NEW s \in Seq(S), NEW t \in Seq(S), t # <<>>
  PROVE  Append(s, Head(t)) \o Tail(t) = s \o t
  OBVIOUS

LEMMA FeedGrows ==
  ASSUME NEW s \in Seq(Event), NEW t \in Seq(Event), NEW e \in Event
  PROVE  s \o Append(t, e) = Append(s \o t, e)
  OBVIOUS

LEMMA FeedTypes ==
  ASSUME WsTypeOK, NEW c \in Clients
  PROVE  /\ Feed(c) \in Seq(Event) /\ Len(Feed(c)) \in Nat
         /\ \A i \in AnswersAt(c) : Feed(c)[i] \in Answers /\ i \in 1..Len(Feed(c))
<1>1. Feed(c) \in Seq(Event)
  BY DEF Feed, WsTypeOK
<1>2. \A i \in 1..Len(Feed(c)) : Feed(c)[i] \in Event
  BY <1>1
<1>. QED
  BY <1>1, <1>2, EventTypes DEF AnswersAt

\* An answer that was routed stays so while ids only go.
LEMMA RoutedStays ==
  ASSUME WsTypeOK, inbox \subseteq inbox',
         \A i \in MangledIds : pending'[i] \in {pending[i], None},
         NEW a \in Answers, Routed(a)
  PROVE  Routed(a)'
<1>1. a.of.id \in MangledIds
  BY DEF Answers, Message
<1>. QED
  BY <1>1 DEF Routed

\* Nothing but a note or a close frame is added to the feeds.
LEMMA RoutesKept ==
  ASSUME WsTypeOK, AnswersAreRouted, answer' \in {answer, None},
         \A a \in Answers : Routed(a) => Routed(a)',
         \A c \in Clients :
           \/ Feed(c)' = Feed(c)
           \/ \E e \in {Note, Close} : Feed(c)' = Append(Feed(c), e)
           \/ AnswersAt(c)' = {}
  PROVE  AnswersAreRouted'
<1>1. ASSUME answer' # None PROVE Routed(answer)'
  <2>1. PICK a \in Answers : a = answer /\ a = answer'
    BY <1>1 DEF WsTypeOK
  <2>2. Routed(a)
    BY <1>1, <2>1 DEF AnswersAreRouted
  <2>3. Routed(a)'
    BY <2>2
  <2>. QED
    BY <2>1, <2>3 DEF Routed
<1>2. ASSUME NEW c \in Clients
      PROVE  /\ AnswersAt(c)' \subseteq AnswersAt(c)
             /\ \A i \in AnswersAt(c)' : Feed(c)'[i] = Feed(c)[i]
  <2>1. CASE Feed(c)' = Feed(c)
    BY <2>1 DEF AnswersAt
  <2>2. ASSUME NEW e \in {Note, Close}, Feed(c)' = Append(Feed(c), e)
        PROVE  /\ AnswersAt(c)' \subseteq AnswersAt(c)
               /\ \A i \in AnswersAt(c)' : Feed(c)'[i] = Feed(c)[i]
    <3>1. e.kind # "answer"
      BY EventTypes
    <3>2. /\ Len(Feed(c)') = Len(Feed(c)) + 1 /\ Feed(c)'[Len(Feed(c)) + 1] = e
          /\ \A i \in 1..Len(Feed(c)) : Feed(c)'[i] = Feed(c)[i]
      BY <2>2, FeedTypes
    <3>3. \A i \in AnswersAt(c)' : i \in 1..(Len(Feed(c)) + 1) /\ Feed(c)'[i].kind = "answer"
      BY <3>2 DEF AnswersAt
    <3>4. \A i \in AnswersAt(c)' : i \in 1..Len(Feed(c))
      BY <3>1, <3>2, <3>3, FeedTypes
    <3>. QED
      BY <3>2, <3>3, <3>4 DEF AnswersAt
  <2>3. CASE AnswersAt(c)' = {}
    BY <2>3
  <2>. QED
    BY <2>1, <2>2, <2>3
<1>3. ASSUME NEW c \in Clients, NEW i \in AnswersAt(c)'
      PROVE  /\ Routed(Feed(c)[i])' /\ Feed(c)'[i].to.client = c
             /\ answer' # None => answer'.of # Feed(c)'[i].of
             /\ \A j \in AnswersAt(c)' : Feed(c)'[i].of = Feed(c)'[j].of => i = j
  <2>1. i \in AnswersAt(c) /\ Feed(c)'[i] = Feed(c)[i]
    BY <1>2, <1>3
  <2>2. PICK a \in Answers : a = Feed(c)[i] /\ a = Feed(c)'[i]
    BY <2>1, FeedTypes
  <2>3. Routed(a)
    BY <2>1, <2>2 DEF AnswersAreRouted
  <2>4. Routed(a)'
    BY <2>3
  <2>5. Routed(Feed(c)[i])'
    BY <2>2, <2>4 DEF Routed
  <2>. QED
    BY <1>2, <2>1, <2>5 DEF AnswersAreRouted
<1>. QED
  BY <1>1, <1>3 DEF AnswersAreRouted

\* The answer looked up goes to the end of its asker's feed.
LEMMA RoutesDelivered ==
  ASSUME WsTypeOK, AnswersAreRouted, NEW b \in Answers, answer = b, answer' = None,
         \A a \in Answers : Routed(a) => Routed(a)',
         Feed(b.to.client)' = Append(Feed(b.to.client), b),
         \A d \in Clients \ {b.to.client} : Feed(d)' = Feed(d)
  PROVE  AnswersAreRouted'
<1>1. answer = b /\ answer # None
  BY EventTypes
<1>2. Routed(b) /\ Routed(b)'
  <2>1. Routed(b)
    BY <1>1 DEF AnswersAreRouted
  <2>. QED
    BY <2>1
<1>3. ASSUME NEW c \in Clients, NEW i \in AnswersAt(c)', i \in AnswersAt(c),
             Feed(c)'[i] = Feed(c)[i]
      PROVE  Routed(Feed(c)[i])' /\ Feed(c)'[i].to.client = c /\ b.of # Feed(c)'[i].of
  <2>1. PICK a \in Answers : a = Feed(c)[i] /\ a = Feed(c)'[i]
    BY <1>3, FeedTypes
  <2>2. Routed(a) /\ a.to.client = c /\ b.of # a.of
    BY <1>1, <1>3, <2>1 DEF AnswersAreRouted
  <2>3. Routed(a)'
    BY <2>2
  <2>. QED
    BY <2>1, <2>2, <2>3 DEF Routed
<1>4. ASSUME NEW c \in Clients, c # b.to.client
      PROVE  /\ AnswersAt(c)' = AnswersAt(c)
             /\ \A i \in AnswersAt(c) : Feed(c)'[i] = Feed(c)[i]
  BY <1>1, <1>4 DEF AnswersAt
<1>. DEFINE d == b.to.client
<1>5. d \in Clients
  BY DEF Answers, Owned
<1>n. PICK n \in Nat : n = Len(Feed(d)) + 1
  BY <1>5, FeedTypes
<1>6. /\ Len(Feed(d)') = n /\ Feed(d)'[n] = b
      /\ \A i \in 1..Len(Feed(d)) : Feed(d)'[i] = Feed(d)[i]
  <2>1. Feed(d)' = Append(Feed(d), b) /\ b \in Event /\ Feed(d) \in Seq(Event)
    BY <1>5, EventTypes, FeedTypes
  <2>. HIDE DEF d
  <2>. QED
    BY <1>n, <2>1
<1>7. \A i \in AnswersAt(d)' : i = n \/ (i \in AnswersAt(d) /\ Feed(d)'[i] = Feed(d)[i])
  BY <1>5, <1>n, <1>6, FeedTypes DEF AnswersAt
<1>8. Routed(Feed(d)[n])' /\ Feed(d)'[n].to.client = d
  BY <1>2, <1>6 DEF Routed
<1>9. ASSUME NEW c \in Clients, NEW i \in AnswersAt(c)'
      PROVE  /\ Routed(Feed(c)[i])' /\ Feed(c)'[i].to.client = c
             /\ \A j \in AnswersAt(c)' : Feed(c)'[i].of = Feed(c)'[j].of => i = j
  <2>1. CASE c # d
    BY <1>3, <1>4, <1>9, <2>1 DEF AnswersAreRouted
  <2>2. CASE c = d /\ i = n
    <3>1. \A j \in AnswersAt(d)' : j # n => b.of # Feed(d)'[j].of
      BY <1>3, <1>5, <1>7
    <3>. QED
      BY <1>6, <1>8, <2>2, <3>1
  <2>3. CASE c = d /\ i # n
    <3>1. i \in AnswersAt(d) /\ Feed(d)'[i] = Feed(d)[i]
      BY <1>7, <1>9, <2>3
    <3>2. /\ Routed(Feed(c)[i])' /\ Feed(c)'[i].to.client = c /\ b.of # Feed(c)'[i].of
      BY <1>3, <1>9, <2>3, <3>1
    <3>3. ASSUME NEW j \in AnswersAt(d)', Feed(d)'[i].of = Feed(d)'[j].of PROVE i = j
      <4>1. j # n
        BY <1>6, <2>3, <3>2, <3>3
      <4>2. j \in AnswersAt(d) /\ Feed(d)'[j] = Feed(d)[j]
        BY <1>7, <4>1
      <4>. QED
        BY <1>5, <3>1, <3>3, <4>2 DEF AnswersAreRouted
    <3>. QED
      BY <2>3, <3>2, <3>3
  <2>. QED
    BY <2>1, <2>2, <2>3
<1>. QED
  BY <1>9 DEF AnswersAreRouted

LEMMA RoutesStep ==
  ASSUME WsTypeOK, TasksFit, IdsAreUnique, AnswersAreRouted, WsNext
  PROVE  AnswersAreRouted'
<1>1. ASSUME NEW c \in Clients, NEW o \in OrigIds,
             NEW kind \in {"request", "response"}, Mangle(c, o, kind)
      PROVE  AnswersAreRouted'
  <2>1. UNCHANGED <<got, chan, inbox, answer>>
    BY <1>1 DEF Mangle
  <2>2. \A i \in MangledIds \ {nextId} : pending'[i] = pending[i]
    BY <1>1 DEF Mangle, WsTypeOK
  <2>3. nextId \in Nat /\ \A m \in inbox : m.id < nextId /\ m.id \in MangledIds /\ m.id \in Nat
    BY MangledTypes DEF IdsAreUnique, Mangled, WsTypeOK, MangledIds
  <2>4. \A a \in Answers : Routed(a) => Routed(a)'
    BY <2>1, <2>2, <2>3 DEF Routed
  <2>5. \A d \in Clients : Feed(d)' = Feed(d)
    BY <2>1 DEF Feed
  <2>. QED
    BY <2>1, <2>4, <2>5, RoutesKept
<1>2. ASSUME NEW c \in Clients, Register(c) PROVE AnswersAreRouted'
  <2>1. UNCHANGED <<got, inbox, pending, answer>>
    BY <1>2 DEF Register, muxVars
  <2>2. \A a \in Answers : Routed(a) => Routed(a)'
    BY <2>1 DEF Routed
  <2>3. \A d \in Clients \ {c} : Feed(d)' = Feed(d)
    BY <1>2 DEF Register, WsTypeOK, Feed
  <2>4. AnswersAt(c)' = {}
    <3>. DEFINE k == IF early < ChanCap THEN early ELSE ChanCap
    <3>1. got'[c] = <<>> /\ chan'[c] = [i \in 1..k |-> Note]
      BY <1>2, <2>1, GotoType DEF Register, TasksFit, WsTypeOK
    <3>2. k \in Int
      BY DEF WsTypeOK
    <3>. HIDE DEF k
    <3>3. PICK j \in Nat : 1..k = 1..j
      <4>1. CASE k \in Nat
        BY <4>1
      <4>2. CASE k \notin Nat
        <5>1. 1..k = 1..0
          BY <3>2, <4>2
        <5>. QED
          BY <5>1
      <4>. QED
        BY <4>1, <4>2
    <3>4. Feed(c)' = [i \in 1..j |-> Note]
      BY <3>1, <3>3 DEF Feed
    <3>5. \A i \in 1..Len(Feed(c)') : Feed(c)'[i] = Note
      BY <3>4
    <3>. QED
      BY <3>5, EventTypes DEF AnswersAt
  <2>. QED
    BY <2>1, <2>2, <2>3, <2>4, RoutesKept
<1>3. ASSUME NEW c \in Clients, WriteEvent(c) PROVE AnswersAreRouted'
  <2>1. UNCHANGED <<inbox, pending, answer>>
    BY <1>3 DEF WriteEvent, muxVars
  <2>2. \A a \in Answers : Routed(a) => Routed(a)'
    BY <2>1 DEF Routed
  <2>3. /\ chan[c] # <<>> /\ got[c] \in Seq(Event) /\ chan[c] \in Seq(Event)
        /\ got'[c] = Append(got[c], Head(chan[c])) /\ chan'[c] = Tail(chan[c])
        /\ \A d \in Clients \ {c} : got'[d] = got[d] /\ chan'[d] = chan[d]
    BY <1>3 DEF WriteEvent, WsTypeOK
  <2>4. Feed(c)' = Feed(c)
    BY <2>3, HandOver DEF Feed
  <2>5. \A d \in Clients \ {c} : Feed(d)' = Feed(d)
    BY <2>3 DEF Feed
  <2>. QED
    BY <2>1, <2>2, <2>4, <2>5, RoutesKept
<1>4. ASSUME NEW c \in Clients,
             \/ CheckLimit(c) \/ CountClient(c) \/ WriteToChild(c) \/ Leave(c)
             \/ RemoveClient(c) \/ PurgeClient(c)
      PROVE  AnswersAreRouted'
  <2>1. /\ UNCHANGED <<got, chan, answer>> /\ inbox \subseteq inbox'
        /\ \A i \in MangledIds : pending'[i] \in {pending[i], None}
    BY <1>4, WithoutType DEF CheckLimit, CountClient, WriteToChild, Leave,
         RemoveClient, PurgeClient, AfterDisconnect, muxVars
  <2>2. \A a \in Answers : Routed(a) => Routed(a)'
    BY <2>1, RoutedStays
  <2>3. \A d \in Clients : Feed(d)' = Feed(d)
    BY <2>1 DEF Feed
  <2>. QED
    BY <2>1, <2>2, <2>3, RoutesKept
<1>5. ASSUME NEW m \in inbox, Unmangle(m) PROVE AnswersAreRouted'
  <2>1. UNCHANGED <<got, chan, inbox>> /\ answer = None
    BY <1>5 DEF Unmangle
  <2>2. m \in Message /\ m.id \in MangledIds /\ pending[m.id] \in {None, m.from}
    BY DEF WsTypeOK, IdsAreUnique, Mangled, Message
  <2>3. pending'[m.id] = None /\ \A i \in MangledIds : pending'[i] \in {pending[i], None}
    BY <1>5, <2>2 DEF Unmangle, AfterLookup, WsTypeOK
  <2>4. \A a \in Answers : Routed(a) => Routed(a)'
    BY <2>1, <2>3, RoutedStays
  <2>5. \A d \in Clients : Feed(d)' = Feed(d)
    BY <2>1 DEF Feed
  <2>6. CASE pending[m.id] = None
    <3>1. answer' = None
      BY <1>5, <2>6 DEF Unmangle
    <3>. QED
      BY <2>4, <2>5, <3>1, RoutesKept
  <2>7. CASE pending[m.id] # None
    <3>1. answer' = Answer(m.from, m)
      BY <1>5, <2>2, <2>7 DEF Unmangle
    <3>2. answer'.of = m /\ answer'.to = m.from
      BY <3>1 DEF Answer
    <3>3. Routed(answer)'
      BY <2>1, <2>3, <3>2 DEF Routed
    <3>4. ASSUME NEW c \in Clients, NEW i \in AnswersAt(c)
          PROVE  /\ Routed(Feed(c)[i])' /\ Feed(c)[i].to.client = c
                 /\ answer'.of # Feed(c)[i].of
                 /\ \A j \in AnswersAt(c) : Feed(c)[i].of = Feed(c)[j].of => i = j
      <4>1. PICK a \in Answers : a = Feed(c)[i] /\ a = Feed(c)'[i]
        BY <2>5, <3>4, FeedTypes
      <4>2. Routed(a)
        BY <4>1 DEF AnswersAreRouted
      <4>3. Routed(a)'
        BY <2>4, <4>2
      <4>4. a.of # m
        BY <2>7, <4>2 DEF Routed
      <4>. QED
        BY <3>2, <4>1, <4>3, <4>4 DEF Routed, AnswersAreRouted
    <3>5. \A c \in Clients : AnswersAt(c)' = AnswersAt(c)
      BY <2>5 DEF AnswersAt
    <3>. QED
      BY <2>5, <3>3, <3>4, <3>5 DEF AnswersAreRouted
  <2>. QED
    BY <2>6, <2>7
<1>6. ASSUME NEW late \in BOOLEAN, Deliver(late) PROVE AnswersAreRouted'
  <2>1. UNCHANGED <<got, inbox>> /\ answer # None /\ answer' = None
    BY <1>6 DEF Deliver
  <2>b. PICK b \in Answers : b = answer
    BY <2>1 DEF WsTypeOK
  <2>. DEFINE c == b.to.client
  <2>2. \A i \in MangledIds : pending'[i] \in {pending[i], None}
    BY <1>6, RelayEffect
  <2>3. \A a \in Answers : Routed(a) => Routed(a)'
    BY <2>1, <2>2, RoutedStays
  <2>4. CASE UNCHANGED chan
    <3>1. \A d \in Clients : Feed(d)' = Feed(d)
      BY <2>1, <2>4 DEF Feed
    <3>. QED
      BY <2>1, <2>3, <3>1, RoutesKept
  <2>5. CASE c \in clients /\ chan' = [chan EXCEPT ![c] = Append(@, b)]
    <3>1. c \in Clients /\ b \in Event
      BY <2>5, EventTypes DEF WsTypeOK
    <3>2. got[c] \in Seq(Event) /\ chan[c] \in Seq(Event) /\ chan'[c] = Append(chan[c], b)
      BY <2>5, <3>1 DEF WsTypeOK
    <3>3. Feed(c)' = Append(Feed(c), b)
      <4>1. got[c] \o Append(chan[c], b) = Append(got[c] \o chan[c], b)
        BY <3>1, <3>2, FeedGrows
      <4>. QED
        BY <2>1, <3>2, <4>1 DEF Feed
    <3>4. \A d \in Clients \ {c} : Feed(d)' = Feed(d)
      BY <2>1, <2>5 DEF Feed, WsTypeOK
    <3>. QED
      BY <2>1, <2>b, <2>3, <3>3, <3>4, RoutesDelivered
  <2>. QED
    BY <1>6, <2>b, <2>4, <2>5 DEF Deliver
<1>7. ASSUME NEW e \in {Note, Close}, UNCHANGED <<got, inbox, answer>>,
             \A i \in MangledIds : pending'[i] \in {pending[i], None},
             chan' = [c \in Clients |->
                       IF c \in clients \ Full THEN Append(chan[c], e) ELSE chan[c]]
      PROVE  AnswersAreRouted'
  <2>1. \A a \in Answers : Routed(a) => Routed(a)'
    BY <1>7, RoutedStays
  <2>2. ASSUME NEW c \in Clients PROVE Feed(c)' \in {Feed(c), Append(Feed(c), e)}
    <3>1. got[c] \in Seq(Event) /\ chan[c] \in Seq(Event) /\ e \in Event
      BY EventTypes DEF WsTypeOK
    <3>2. chan'[c] \in {chan[c], Append(chan[c], e)}
      BY <1>7
    <3>3. got[c] \o Append(chan[c], e) = Append(got[c] \o chan[c], e)
      BY <3>1, FeedGrows
    <3>. QED
      BY <1>7, <3>2, <3>3 DEF Feed
  <2>. QED
    BY <1>7, <2>1, <2>2, RoutesKept
<1>8. ASSUME NEW gone \in SUBSET clients, Broadcast(gone) PROVE AnswersAreRouted'
  <2>1. \A i \in MangledIds : pending'[i] \in {pending[i], None}
    BY <1>8, RelayEffect
  <2>. QED
    BY <1>7, <1>8, <2>1 DEF Broadcast
<1>9. CASE CloseAllClients
  <2>1. \A i \in MangledIds : pending'[i] \in {pending[i], None}
    BY <1>9, RelayEffect
  <2>. QED
    BY <1>7, <1>9, <2>1 DEF CloseAllClients
<1>10. CASE BufferEarly \/ Exit
  <2>1. UNCHANGED <<got, chan, inbox, pending, answer>>
    BY <1>10 DEF BufferEarly, Exit, muxVars
  <2>2. /\ \A a \in Answers : Routed(a) => Routed(a)'
        /\ \A c \in Clients : Feed(c)' = Feed(c)
    BY <2>1 DEF Routed, Feed
  <2>. QED
    BY <2>1, <2>2, RoutesKept
<1>. QED
  BY <1>1, <1>2, <1>3, <1>4, <1>5, <1>6, <1>8, <1>9, <1>10 DEF WsNext

-----------------------------------------------------------------------------
(* The theorems                                                            *)

LEMMA WsStutters ==
  ASSUME WsIInv, UNCHANGED wvars
  PROVE  WsIInv'
<1>. USE DEF wvars
<1>1. WsTypeOK' /\ TasksFit' /\ PendingIsOwned'
  BY DEF WsIInv, WsTypeOK, TasksFit, PendingIsOwned
<1>2. GaugesCount'
  <2>1. Served' = Served /\ Left' = Left
    BY DEF Served, Left
  <2>. QED
    BY <2>1 DEF WsIInv, GaugesCount
<1>3. IdsAreUnique'
  <2>1. Mangled' = Mangled
    BY DEF Mangled
  <2>. QED
    BY <2>1 DEF WsIInv, IdsAreUnique
<1>4. AnswersAreRouted'
  <2>1. /\ \A a \in Answers : Routed(a) => Routed(a)'
        /\ \A c \in Clients : Feed(c)' = Feed(c)
    BY DEF Routed, Feed
  <2>. QED
    BY <2>1, RoutesKept DEF WsIInv
<1>. QED
  BY <1>1, <1>2, <1>3, <1>4 DEF WsIInv

LEMMA TypesStep ==
  ASSUME WsTypeOK, TasksFit, IdsAreUnique, WsNext
  PROVE  WsTypeOK'
<1>1. ASSUME NEW c \in Clients, NEW o \in OrigIds,
             NEW kind \in {"request", "response"}, Mangle(c, o, kind)
      PROVE  WsTypeOK'
  BY <1>1, MangleTypes
<1>. QED
  BY <1>1, TaskTypes, RelayTypes DEF WsNext

\* In every reachable state, for any finite set of clients: the types hold, the
\* gauges count, a pending id leads back to its sender, and every answer on its
\* way is its asker's (handle_ws_message(), route_response(),
\* disconnect_client()).
THEOREM WsInvariant == WsSpec => []WsIInv
<1>1. ASSUME WsIInv, WsNext PROVE WsIInv'
  BY <1>1, TypesStep, TasksStep, GaugesStep, OwnedStep, IdsStep, RoutesStep DEF WsIInv
<1>2. WsIInv /\ [WsNext]_wvars => WsIInv'
  BY <1>1, WsStutters
<1>. QED
  BY WsInitially, <1>2, PTL DEF WsSpec

\* Every variable keeps its type and no channel outgrows CLIENT_CHANNEL_CAP.
THEOREM WsTypesHold == WsSpec => []WsTypeOK
  BY WsInvariant, PTL DEF WsIInv

\* IdMultiplexer: an answer reaches the client that asked, under the id it
\* asked with, and once, whatever the other clients choose and do.
THEOREM AnswersReachAskers == WsSpec => []AnswerIsAskers
<1>1. WsIInv => AnswerIsAskers
  <2>. SUFFICES ASSUME WsIInv, NEW c \in Clients, NEW i \in AnswersAt(c)
       PROVE  /\ Feed(c)[i].of.from = [client |-> c, orig |-> Feed(c)[i].to.orig]
              /\ Feed(c)[i].to.client = c
              /\ \A j \in AnswersAt(c) : Feed(c)[i].of = Feed(c)[j].of => i = j
    BY DEF AnswerIsAskers
  <2>1. PICK a \in Answers : a = Feed(c)[i]
    BY FeedTypes DEF WsIInv
  <2>2. a.to = a.of.from /\ a.to.client = c
    BY <2>1 DEF WsIInv, AnswersAreRouted, Routed
  <2>3. a.to = [client |-> a.to.client, orig |-> a.to.orig]
    BY DEF Answers, Owned
  <2>4. \A j \in AnswersAt(c) : Feed(c)[i].of = Feed(c)[j].of => i = j
    BY DEF WsIInv, AnswersAreRouted
  <2>. QED
    BY <2>1, <2>2, <2>3, <2>4
<1>. QED
  BY <1>1, WsInvariant, PTL

\* disconnect_client() and the relay between them leave no id of a client that
\* is gone, but for the clients the relay took out behind their tasks' backs.
THEOREM PendingIdsAreOwned == WsSpec => []PendingIsOwned
  BY WsInvariant, PTL DEF WsIInv

\* active_clients and client_disconnects are exact up to the tasks on their
\* way, whoever removes a client and however often it is tried.
THEOREM GaugesAreExact == WsSpec => []WsGaugesExact
<1>1. WsIInv => WsGaugesExact
  <2>. DEFINE at(where) == {c \in Clients : conn[c] = where}
              registered == {c \in Clients : conn[c] \notin {"new", "refused", "checked"}}
  <2>. SUFFICES ASSUME WsIInv, relay = "running"
       PROVE  /\ active = Cardinality(clients \ at("uncounted")) + Cardinality(at("removed"))
              /\ disconnects = Cardinality(registered \ clients) - Cardinality(at("removed"))
    BY DEF WsGaugesExact
  <2>1. active = Cardinality(Served) /\ disconnects = Cardinality(Left)
    BY DEF WsIInv, GaugesCount
  <2>2. /\ Served = (clients \ at("uncounted")) \cup at("removed")
        /\ (clients \ at("uncounted")) \cap at("removed") = {}
        /\ Left = (registered \ clients) \ at("removed")
        /\ (registered \ clients) \cap at("removed") = at("removed")
    BY DEF WsIInv, WsTypeOK, TasksFit, Served, Left, Attached
  <2>3. /\ clients \ at("uncounted") \in SUBSET Clients /\ at("removed") \in SUBSET Clients
        /\ registered \ clients \in SUBSET Clients
    BY DEF WsIInv, WsTypeOK
  <2>4. /\ IsFiniteSet(clients \ at("uncounted")) /\ IsFiniteSet(at("removed"))
        /\ IsFiniteSet(registered \ clients)
        /\ Cardinality(clients \ at("uncounted")) \in Nat
        /\ Cardinality(at("removed")) \in Nat /\ Cardinality(registered \ clients) \in Nat
    BY <2>3, PartsAreCounted
  <2>. HIDE DEF at, registered
  <2>5. Cardinality(Served) = Cardinality(clients \ at("uncounted")) + Cardinality(at("removed"))
    <3>. DEFINE A == clients \ at("uncounted")
                B == at("removed")
    <3>1. Cardinality(A \cup B) = Cardinality(A) + Cardinality(B) - Cardinality(A \cap B)
      BY <2>4, FS_Union
    <3>2. Cardinality(A \cap B) = 0
      BY <2>2, FS_EmptySet
    <3>. QED
      BY <2>2, <2>4, <3>1, <3>2
  <2>6. Cardinality(Left) = Cardinality(registered \ clients) - Cardinality(at("removed"))
    BY <2>2, <2>4, FS_Difference
  <2>. QED
    BY <2>1, <2>5, <2>6
<1>. QED
  BY <1>1, WsInvariant, PTL

=============================================================================
