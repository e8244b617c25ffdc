------------------------- MODULE StatefulRelayProofs --------------------------
(***************************************************************************)
(* Proofs about StatefulRelay, for any set of POSTs, ids and bodies and    *)
(* any capacities: answers reach their askers and are lost in one window   *)
(* only, and notifications keep their order.                               *)
(***************************************************************************)
EXTENDS StatefulRelay, FiniteSetTheorems, TLAPS

Registered0(p) == {i \in Ids : pending[i] = p}
ChanIds(p) == {chan[p][k].id : k \in DOMAIN chan[p]}

-----------------------------------------------------------------------------
(* Counting                                                                *)

LEMMA IdsAreFinite ==
  ASSUME HandlersTypeOK, NEW p \in Posts
  PROVE  IsFiniteSet(IdsOf(p)) /\ Cardinality(IdsOf(p)) \in Nat /\ IdsOf(p) \subseteq Ids
<1>1. IsFiniteSet(bodyOf[p]) /\ bodyOf[p] \subseteq Ids \cup {Note}
  BY BodiesOfPosts DEF HandlersTypeOK
<1>2. IdsOf(p) \in SUBSET bodyOf[p]
  BY DEF IdsOf
<1>. QED
  BY <1>1, <1>2, FS_Subset, FS_CardinalityType DEF IdsOf

LEMMA RegisteredAreFinite ==
  ASSUME HandlersTypeOK, PendingFits, NEW p \in Posts
  PROVE  /\ Registered0(p) \in SUBSET IdsOf(p)
         /\ IsFiniteSet(Registered0(p)) /\ Cardinality(Registered0(p)) \in Nat
<1>1. Registered0(p) \in SUBSET IdsOf(p)
  BY NobodyIsNoPost DEF Registered0, PendingFits, Registers, HandlersTypeOK
<1>. QED
  BY <1>1, IdsAreFinite, FS_Subset, FS_CardinalityType

\* A sequence whose elements have different ids has as many ids as elements.
LEMMA DifferentIds ==
  ASSUME NEW s \in Seq(Said),
         \A j, k \in DOMAIN s : s[j].id = s[k].id => j = k
  PROVE  LET S == {s[k].id : k \in DOMAIN s} IN IsFiniteSet(S) /\ Cardinality(S) = Len(s)
<1>. DEFINE S == {s[k].id : k \in DOMAIN s}
            f == [k \in 1..Len(s) |-> s[k].id]
<1>1. Len(s) \in Nat /\ DOMAIN s = 1..Len(s)
  OBVIOUS
<1>2. f \in Surjection(1..Len(s), S) /\ f \in Injection(1..Len(s), S)
  BY <1>1 DEF Surjection, Injection, IsInjective
<1>3. IsFiniteSet(1..Len(s)) /\ Cardinality(1..Len(s)) = Len(s)
  BY <1>1, FS_Interval
<1>. HIDE DEF f, S
<1>4. IsFiniteSet(S) /\ Cardinality(S) = Cardinality(1..Len(s))
  BY <1>2, <1>3, FS_Surjection
<1>. QED
  BY <1>3, <1>4 DEF S

\* What is in a handler's channel and what is registered are ids of its own,
\* and no id is both.
LEMMA RoomForRegistered ==
  ASSUME HandlersTypeOK, PendingFits, ChannelsFit, NEW p \in Posts
  PROVE  Len(chan[p]) + Cardinality(Registered0(p)) <= Cardinality(IdsOf(p))
<1>1. chan[p] \in Seq(Said) /\ Len(chan[p]) \in Nat
  BY DEF HandlersTypeOK
<1>2. IsFiniteSet(ChanIds(p)) /\ Cardinality(ChanIds(p)) = Len(chan[p])
  BY <1>1, DifferentIds DEF ChannelsFit, ChanIds
<1>3. ChanIds(p) \cup Registered0(p) \in SUBSET IdsOf(p)
  BY RegisteredAreFinite DEF ChanIds, ChannelsFit, Registers
<1>4. ChanIds(p) \cap Registered0(p) = {}
  BY DEF ChanIds, ChannelsFit, Registered0
<1>5. Cardinality(ChanIds(p) \cup Registered0(p))
        = Cardinality(ChanIds(p)) + Cardinality(Registered0(p))
  <2>1. Cardinality(ChanIds(p) \cup Registered0(p))
          = Cardinality(ChanIds(p)) + Cardinality(Registered0(p)) - Cardinality({})
    BY <1>2, <1>4, RegisteredAreFinite, FS_Union
  <2>. QED
    BY <2>1, <1>1, <1>2, RegisteredAreFinite, FS_EmptySet
<1>6. Cardinality(ChanIds(p) \cup Registered0(p)) <= Cardinality(IdsOf(p))
  BY <1>3, IdsAreFinite, FS_Subset
<1>. QED
  BY <1>2, <1>5, <1>6

\* The errors fail_pending_requests() sends go to registered ids, one each,
\* and to all of them if there is room.
LEMMA FailureShape ==
  ASSUME HandlersTypeOK, PendingFits, NEW p \in Posts, Len(chan[p]) <= RespCap,
         NEW c \in FailureOf(p)
  PROVE  /\ c \in Seq(Said) /\ Len(chan[p]) <= Len(c) /\ Len(c) <= RespCap
         /\ \A k \in DOMAIN chan[p] : c[k] = chan[p][k]
         /\ \A k \in DOMAIN c \ DOMAIN chan[p] :
              c[k].from = Nobody /\ c[k].id \in Ids /\ pending[c[k].id] = p
         /\ \A j, k \in DOMAIN c \ DOMAIN chan[p] : c[j].id = c[k].id => j = k
         /\ Len(chan[p]) + Cardinality(Registered0(p)) <= RespCap =>
              \A i \in Registered0(p) : \E k \in DOMAIN c : c[k].id = i
<1>. DEFINE ids == Registered0(p)
            n == Len(chan[p])
            sent == Smaller(Cardinality(ids), RespCap - n)
<1>1. Cardinality(ids) \in Nat
  BY RegisteredAreFinite
<1>2. PICK order \in Bijection(1..Cardinality(ids), ids) :
        c = chan[p] \o [k \in 1..sent |-> Failure(order[k])]
  BY DEF FailureOf, Registered0
<1>3. n \in Nat /\ chan[p] \in Seq(Said) /\ DOMAIN chan[p] = 1..n
  BY DEF HandlersTypeOK
<1>4. sent \in Nat /\ sent <= Cardinality(ids) /\ n + sent <= RespCap
  BY <1>1, <1>3, CapsPositive DEF Smaller
<1>5. n + Cardinality(ids) <= RespCap => sent = Cardinality(ids)
  BY <1>1, <1>3, CapsPositive DEF Smaller
<1>6. /\ \A k \in 1..Cardinality(ids) : order[k] \in ids
      /\ \A j, k \in 1..Cardinality(ids) : order[j] = order[k] => j = k
      /\ \A i \in ids : \E k \in 1..Cardinality(ids) : order[k] = i
  BY <1>1 DEF Bijection, Injection, Surjection, IsInjective
<1>. HIDE DEF sent
<1>7. \A i \in ids : i \in Ids /\ pending[i] = p
  BY DEF Registered0
<1>. HIDE DEF ids
<1>. DEFINE t == [k \in 1..sent |-> Failure(order[k])]
<1>8. t \in Seq(Said) /\ Len(t) = sent /\ \A k \in 1..sent : t[k] = [id |-> order[k], from |-> Nobody]
  BY <1>1, <1>4, <1>6, <1>7 DEF Failure, Said
<1>. HIDE DEF t, n
<1>9. /\ c \in Seq(Said) /\ Len(c) = n + sent /\ DOMAIN c = 1..(n + sent)
      /\ \A k \in 1..n : c[k] = chan[p][k]
      /\ \A k \in 1..sent : c[n + k] = t[k]
  BY <1>2, <1>3, <1>4, <1>8 DEF t, n
<1>10. \A k \in DOMAIN c \ DOMAIN chan[p] :
         k - n \in 1..Cardinality(ids) /\ c[k] = [id |-> order[k - n], from |-> Nobody]
  <2>. SUFFICES ASSUME NEW k \in DOMAIN c \ DOMAIN chan[p]
                PROVE  k - n \in 1..Cardinality(ids) /\ c[k] = [id |-> order[k - n], from |-> Nobody]
    OBVIOUS
  <2>1. k - n \in 1..sent /\ n + (k - n) = k
    BY <1>3, <1>4, <1>9
  <2>. QED
    BY <2>1, <1>1, <1>4, <1>8, <1>9
<1>11. \A j, k \in DOMAIN c \ DOMAIN chan[p] : c[j].id = c[k].id => j = k
  BY <1>3, <1>6, <1>9, <1>10
<1>12. ASSUME n + Cardinality(ids) <= RespCap, NEW i \in ids
       PROVE  \E k \in DOMAIN c : c[k].id = i
  <2>1. PICK k \in 1..sent : order[k] = i
    BY <1>5, <1>6, <1>12
  <2>2. n + k \in DOMAIN c /\ c[n + k] = [id |-> i, from |-> Nobody]
    BY <2>1, <1>3, <1>4, <1>8, <1>9
  <2>. QED
    BY <2>2
<1>13. \A k \in DOMAIN c \ DOMAIN chan[p] :
         c[k].from = Nobody /\ c[k].id \in Ids /\ pending[c[k].id] = p
  BY <1>6, <1>7, <1>10
<1>14. Len(chan[p]) <= Len(c) /\ Len(c) <= RespCap /\ \A k \in DOMAIN chan[p] : c[k] = chan[p][k]
  BY <1>3, <1>4, <1>9 DEF n
<1>. QED
  BY <1>9, <1>11, <1>12, <1>13, <1>14 DEF n, ids

-----------------------------------------------------------------------------
(* Types                                                                   *)

LEMMA RelayInitially == RelayInit => RoutingIInv /\ NoticesIInv
<1>. SUFFICES ASSUME RelayInit PROVE RoutingIInv /\ NoticesIInv
  OBVIOUS
<1>1. /\ stdout = <<>> /\ inbox = {} /\ early = <<>> /\ notices = <<>> /\ received = <<>>
      /\ routedEarly = 0 /\ printed = 0 /\ backpressure = 0 /\ ~initDone
      /\ \A p \in Posts : chan[p] = <<>> /\ phase[p] = "start"
  BY DEF RelayInit
<1>2. HandlersTypeOK
  BY DEF RelayInit, HandlersTypeOK
<1>3. ChildTypeOK
  <2>1. inMap \in BOOLEAN /\ childFailed \in BOOLEAN /\ alive \in BOOLEAN /\ relay = "running"
    BY DEF RelayInit
  <2>. QED
    BY <1>1, <2>1 DEF ChildTypeOK
<1>4. NoticesTypeOK
  <2>1. initDone \in BOOLEAN /\ stream = "unclaimed"
    BY DEF RelayInit
  <2>. QED
    BY <1>1, <2>1 DEF NoticesTypeOK
<1>5. RelayLast /\ TodoFits /\ PendingFits /\ AnswerIsOwn
  BY DEF RelayInit, RelayLast, TodoFits, PendingFits, AnswerIsOwn
<1>6. AskedOnce
  BY <1>1 DEF AskedOnce
<1>7. ChannelsFit
  BY <1>1, CapsPositive DEF ChannelsFit
<1>8. NothingLost
  BY <1>1 DEF NothingLost, Awaits
<1>9. DisconnectedOnlyIfClosed
  BY DEF RelayInit, DisconnectedOnlyIfClosed
<1>10. Noted = {} /\ Dropped = 0
  BY <1>1, CapsPositive DEF Noted, Dropped
<1>11. NotificationsInOrder
  <2>1. received \o notices \o early = <<>>
    BY <1>1
  <2>2. Behind = (0 + 1)..printed /\ 0 \in 0..printed
    BY <1>1, <1>10 DEF Behind
  <2>3. early = [k \in 1..(routedEarly - Dropped) |-> Dropped + k]
    BY <1>1, <1>10
  <2>. QED
    BY <1>1, <1>10, <2>1, <2>2, <2>3 DEF NotificationsInOrder, Seen
<1>12. NoticesFit
  BY <1>1, <1>10, CapsPositive DEF NoticesFit, Behind
<1>. QED
  BY <1>2, <1>3, <1>4, <1>5, <1>6, <1>7, <1>8, <1>9, <1>11, <1>12
  DEF RoutingIInv, NoticesIInv, RelayTypeOK

LEMMA HandlersTypes ==
  ASSUME HandlersTypeOK, NEW p \in Posts,
         \/ StartPost(p) \/ WritesDone(p) \/ Collect(p) \/ Disconnected(p) \/ Deadline(p)
         \/ \E m \in Ids \cup {Note} : WriteMessage(p, m)
         \/ \E i \in Ids : RegisterPending(p, i)
  PROVE  HandlersTypeOK'
<1>0. IdsOf(p) \subseteq Ids \cup {Note} /\ bodyOf[p] \subseteq Ids \cup {Note}
  BY BodiesOfPosts DEF IdsOf, HandlersTypeOK
<1>. USE <1>0 DEF HandlersTypeOK, End, Advance
<1>1. CASE StartPost(p)
  BY <1>1 DEF StartPost
<1>2. ASSUME NEW m \in Ids \cup {Note}, WriteMessage(p, m)
      PROVE  HandlersTypeOK'
  BY <1>2 DEF WriteMessage
<1>3. CASE WritesDone(p)
  BY <1>3 DEF WritesDone
<1>4. ASSUME NEW i \in Ids, RegisterPending(p, i)
      PROVE  HandlersTypeOK'
  <2>1. pending' \in [Ids -> Posts \cup {Nobody}]
    BY <1>4 DEF RegisterPending, Registered
  <2>2. CASE todo[p] = {i}
    BY <1>4, <2>1, <2>2 DEF RegisterPending
  <2>3. CASE todo[p] # {i}
    <3>1. todo[p] \ {i} \in SUBSET (Ids \cup {Note})
      OBVIOUS
    <3>2. todo' = [todo EXCEPT ![p] = todo[p] \ {i}]
      BY <1>4, <2>3 DEF RegisterPending
    <3>3. todo' \in [Posts -> SUBSET (Ids \cup {Note})]
      BY <3>1, <3>2
    <3>. QED
      BY <1>4, <2>1, <2>3, <3>3 DEF RegisterPending
  <2>. QED
    BY <2>2, <2>3
<1>5. CASE Collect(p)
  <2>1. Head(chan[p]) \in Said /\ Tail(chan[p]) \in Seq(Said)
    BY <1>5 DEF Collect
  <2>. QED
    BY <1>5, <2>1 DEF Collect
<1>6. CASE Disconnected(p) \/ Deadline(p)
  BY <1>6 DEF Disconnected, Deadline
<1>. QED
  BY <1>1, <1>2, <1>3, <1>4, <1>5, <1>6

LEMMA HeadIsMessage ==
  ASSUME ChildTypeOK, stdout # <<>>
  PROVE  /\ Tail(stdout) \in Seq(Answer \cup [id : {Note}, number : Nat])
         /\ Head(stdout).id # Note => Head(stdout) \in Answer
         /\ Head(stdout).id = Note => Head(stdout).number \in Nat
<1>1. /\ Head(stdout) \in Answer \cup [id : {Note}, number : Nat]
      /\ Tail(stdout) \in Seq(Answer \cup [id : {Note}, number : Nat])
  BY DEF ChildTypeOK
<1>. QED
  BY <1>1, NoteHasNoId DEF Answer

LEMMA RelayTypes ==
  ASSUME RelayTypeOK, PendingFits, ChannelsFit, Relay
  PROVE  RelayTypeOK'
<1>1. CASE RouteResponse
  <2>1. Head(stdout) \in Answer /\ Tail(stdout) \in Seq(Answer \cup [id : {Note}, number : Nat])
    BY <1>1, HeadIsMessage DEF RouteResponse, RelayTypeOK
  <2>2. NoticesTypeOK'
    <3>1. Flushed.early \in Seq(Nat) /\ Flushed.notices \in Seq(Nat)
      BY DEF Flushed, NoticesTypeOK, RelayTypeOK
    <3>2. \/ early' = Flushed.early /\ notices' = Flushed.notices /\ initDone' = TRUE
          \/ UNCHANGED <<initDone, early, notices>>
      BY <1>1 DEF RouteResponse, MarkInitDone
    <3>3. UNCHANGED <<printed, backpressure, routedEarly, received, stream>>
      BY <1>1 DEF RouteResponse
    <3>. QED
      BY <3>1, <3>2, <3>3 DEF NoticesTypeOK, RelayTypeOK
  <2>3. HandlersTypeOK'
    <3>1. PICK m \in Answer : m = Head(stdout)
      BY <2>1
    <3>2. pending' \in [Ids -> Posts \cup {Nobody}]
      BY <1>1, <3>1 DEF RouteResponse, HandlersTypeOK, RelayTypeOK, Answer
    <3>3. [id |-> m.id, from |-> m.from] \in Said
      BY DEF Answer, Said
    <3>4. \A p \in Posts : Deliver(p, [id |-> m.id, from |-> m.from]) \in Seq(Said)
      BY <3>3 DEF Deliver, HandlersTypeOK, RelayTypeOK
    <3>5. chan' \in [Posts -> Seq(Said)]
      BY <1>1, <3>1, <3>4 DEF RouteResponse, HandlersTypeOK, RelayTypeOK
    <3>. QED
      BY <1>1, <3>2, <3>5 DEF RouteResponse, HandlersTypeOK, RelayTypeOK
  <2>. QED
    BY <1>1, <2>1, <2>2, <2>3 DEF RouteResponse, RelayTypeOK, ChildTypeOK
<1>2. CASE RouteNotification
  <2>1. /\ Head(stdout).number \in Nat
        /\ Tail(stdout) \in Seq(Answer \cup [id : {Note}, number : Nat])
    BY <1>2, HeadIsMessage DEF RouteNotification, RelayTypeOK
  <2>2. early' \in Seq(Nat) /\ notices' \in Seq(Nat)
    <3>1. early \in Seq(Nat) /\ notices \in Seq(Nat)
      BY DEF RelayTypeOK, NoticesTypeOK
    <3>2. ~ Len(early) < EarlyCap => Tail(early) \in Seq(Nat)
      BY <3>1, CapsPositive
    <3>3. PICK n \in Nat : n = Head(stdout).number
      BY <2>1
    <3>4. /\ Append(notices, n) \in Seq(Nat)
          /\ Append(IF Len(early) < EarlyCap THEN early ELSE Tail(early), n) \in Seq(Nat)
      BY <3>1, <3>2
    <3>. QED
      BY <1>2, <3>1, <3>3, <3>4 DEF RouteNotification
  <2>3. backpressure' \in Nat /\ routedEarly' \in Nat
    BY <1>2 DEF RouteNotification, RelayTypeOK, NoticesTypeOK
  <2>4. NoticesTypeOK'
    BY <1>2, <2>2, <2>3 DEF RouteNotification, RelayTypeOK, NoticesTypeOK
  <2>5. HandlersTypeOK'
    BY <1>2 DEF RouteNotification, RelayTypeOK, HandlersTypeOK, handlerVars
  <2>. QED
    BY <1>2, <2>1, <2>4, <2>5 DEF RouteNotification, RelayTypeOK, ChildTypeOK
<1>3. CASE RelayReadError
  BY <1>3 DEF RelayReadError, RelayTypeOK, HandlersTypeOK, ChildTypeOK, NoticesTypeOK,
              handlerVars, noticeVars
<1>4. CASE FailPending
  <2>1. chan' \in [Posts -> Seq(Said)]
    BY <1>4, FailureShape DEF FailPending, ChannelsFit, RelayTypeOK
  <2>. QED
    BY <1>4, <2>1 DEF FailPending, RelayTypeOK, HandlersTypeOK, ChildTypeOK,
                      NoticesTypeOK, noticeVars
<1>. QED
  BY <1>1, <1>2, <1>3, <1>4 DEF Relay

LEMMA TypeStep ==
  ASSUME RelayTypeOK, PendingFits, ChannelsFit, [RelayNext]_rvars
  PROVE  RelayTypeOK'
<1>. USE DEF RelayTypeOK, handlerVars, noticeVars
<1>1. CASE UNCHANGED rvars
  BY <1>1 DEF rvars, HandlersTypeOK, ChildTypeOK, NoticesTypeOK
<1>2. ASSUME NEW p \in Posts, StartPost(p) \/ Handler(p) \/ Deadline(p)
      PROVE  RelayTypeOK'
  <2>1. HandlersTypeOK'
    BY <1>2, HandlersTypes DEF Handler
  <2>2. NoticesTypeOK'
    BY <1>2 DEF NoticesTypeOK, StartPost, Handler, WriteMessage, WritesDone,
                RegisterPending, Collect, Disconnected, Deadline
  <2>3. ChildTypeOK'
    BY <1>2 DEF ChildTypeOK, Request, StartPost, Handler, WriteMessage, WritesDone,
                RegisterPending, Collect, Disconnected, Deadline
  <2>. QED
    BY <2>1, <2>2, <2>3
<1>3. ASSUME NEW m \in Request, ChildAnswers(m)
      PROVE  RelayTypeOK'
  <2>1. \A good \in BOOLEAN : [id |-> m.id, from |-> m.from, result |-> good] \in Answer
    BY DEF Request, Answer
  <2>2. ChildTypeOK'
    BY <1>3, <2>1 DEF ChildAnswers, ChildTypeOK
  <2>. QED
    BY <1>3, <2>2 DEF ChildAnswers, HandlersTypeOK, NoticesTypeOK
<1>4. CASE ChildNotifies
  <2>1. Notice(printed + 1) \in [id : {Note}, number : Nat]
    BY DEF Notice, NoticesTypeOK
  <2>2. ChildTypeOK'
    BY <1>4, <2>1 DEF ChildNotifies, ChildTypeOK
  <2>. QED
    BY <1>4, <2>2 DEF ChildNotifies, HandlersTypeOK, NoticesTypeOK
<1>5. CASE ChildDies \/ CloseSession
  BY <1>5 DEF ChildDies, CloseSession, HandlersTypeOK, ChildTypeOK, NoticesTypeOK
<1>6. CASE Relay
  BY <1>6, RelayTypes
<1>7. CASE OpenStream \/ WriteNotice \/ StreamEnds
  <2>1. NoticesTypeOK'
    <3>1. CASE OpenStream
      BY <3>1 DEF OpenStream, NoticesTypeOK
    <3>3. CASE StreamEnds
      BY <3>3 DEF StreamEnds, NoticesTypeOK
    <3>2. CASE WriteNotice
      <4>1. Head(notices) \in Nat /\ Tail(notices) \in Seq(Nat)
        BY <3>2 DEF WriteNotice, NoticesTypeOK
      <4>. QED
        BY <3>2, <4>1 DEF WriteNotice, NoticesTypeOK
    <3>. QED
      BY <1>7, <3>1, <3>2, <3>3
  <2>2. UNCHANGED <<handlerVars, inMap, childFailed, alive, inbox, stdout, relay>>
    BY <1>7 DEF OpenStream, WriteNotice, StreamEnds
  <2>. QED
    BY <2>1, <2>2 DEF HandlersTypeOK, ChildTypeOK
<1>. QED
  BY <1>1, <1>2, <1>3, <1>4, <1>5, <1>6, <1>7 DEF RelayNext

-----------------------------------------------------------------------------
(* The handlers' steps                                                     *)

\* What the conjuncts say of the other handlers does not change when p moves.
Moves(p) ==
  /\ UNCHANGED bodyOf
  /\ \A q \in Posts \ {p} :
       /\ phase'[q] = phase[q] /\ todo'[q] = todo[q] /\ chan'[q] = chan[q]
       /\ answers'[q] = answers[q] /\ ended'[q] = ended[q]

LEMMA MessagesTyped ==
  ASSUME ChildTypeOK
  PROVE  /\ \A m \in inbox : m.from \in Posts /\ m.id \in Ids
         /\ \A k \in DOMAIN stdout : stdout[k].id # Note =>
              stdout[k].from \in Posts /\ stdout[k].id \in Ids
<1>1. \A k \in DOMAIN stdout : stdout[k] \in Answer \cup [id : {Note}, number : Nat]
  BY DEF ChildTypeOK
<1>. QED
  BY <1>1 DEF ChildTypeOK, Request, Answer

LEMMA OneAsker ==
  ASSUME HandlersTypeOK, NEW p \in Posts, NEW q \in Posts, NEW i \in IdsOf(p) \cap IdsOf(q)
  PROVE  p = q
  BY IdsUsedOnce DEF IdsOf, HandlersTypeOK

\* A move of p leaves every request asked, if p's still are.
LEMMA AskedKept ==
  ASSUME HandlersTypeOK, NEW p \in Posts, Moves(p), UNCHANGED inMap,
         \A i \in Ids : pending'[i] = pending[i] \/ (pending'[i] = p /\ i \in IdsOf(p)),
         \A m : m.from = p /\ m.id \in Ids /\ Asked(m) => Asked(m)',
         NEW m, m.from \in Posts, m.id \in Ids, Asked(m)
  PROVE  Asked(m)'
<1>1. CASE m.from # p
  <2>1. m.id \notin IdsOf(p)
    BY <1>1, OneAsker DEF Asked
  <2>2. pending'[m.id] = pending[m.id]
    BY <2>1
  <2>. QED
    BY <1>1, <2>2 DEF Asked, Moves, IdsOf
<1>. QED
  BY <1>1

LEMMA AskedByOthers ==
  ASSUME HandlersTypeOK, ChildTypeOK, AskedOnce, NEW p \in Posts, Moves(p),
         UNCHANGED <<inMap, inbox, stdout>>,
         \A i \in Ids : pending'[i] = pending[i] \/ (pending'[i] = p /\ i \in IdsOf(p)),
         \A m : m.from = p /\ m.id \in Ids /\ Asked(m) => Asked(m)'
  PROVE  AskedOnce'
<1>1. \A m : m.from \in Posts /\ m.id \in Ids /\ Asked(m) => Asked(m)'
  BY AskedKept
<1>. QED
  BY <1>1, MessagesTyped DEF AskedOnce

LEMMA StartStep ==
  ASSUME RoutingIInv, NEW p \in Posts, StartPost(p)
  PROVE  /\ TodoFits' /\ PendingFits' /\ AskedOnce' /\ ChannelsFit'
         /\ NothingLost' /\ AnswerIsOwn' /\ DisconnectedOnlyIfClosed'
<1>1. /\ phase[p] = "start"
      /\ \/ phase'[p] = "done" /\ todo'[p] = todo[p] /\ ended'[p] # "disconnected"
         \/ phase'[p] = "writing" /\ todo'[p] = bodyOf[p] /\ ended'[p] = ended[p]
      /\ Moves(p)
      /\ UNCHANGED <<bodyOf, chan, answers, pending, inMap, inbox, stdout>>
  BY DEF StartPost, Moves, End, Advance, RoutingIInv, RelayTypeOK, HandlersTypeOK
<1>. USE <1>1 DEF RoutingIInv, Moves
<1>2. TodoFits'
  BY DEF TodoFits, IdsOf
<1>3. PendingFits'
  BY DEF PendingFits, Registers, IdsOf, RelayTypeOK, HandlersTypeOK
<1>4. AskedOnce'
  <2>1. \A m : m.from = p => ~Asked(m)
    BY DEF Asked
  <2>. QED
    BY <2>1, AskedByOthers DEF RelayTypeOK
<1>5. ChannelsFit'
  BY DEF ChannelsFit, Registers, IdsOf
<1>6. NothingLost'
  BY DEF NothingLost, Awaits, IdsOf
<1>7. AnswerIsOwn' /\ DisconnectedOnlyIfClosed'
  BY DEF AnswerIsOwn, DisconnectedOnlyIfClosed, IdsOf
<1>. QED
  BY <1>2, <1>3, <1>4, <1>5, <1>6, <1>7

LEMMA WriteStep ==
  ASSUME RoutingIInv, NEW p \in Posts, NEW m \in Ids \cup {Note}, WriteMessage(p, m)
  PROVE  /\ TodoFits' /\ PendingFits' /\ AskedOnce' /\ ChannelsFit'
         /\ NothingLost' /\ AnswerIsOwn' /\ DisconnectedOnlyIfClosed'
<1>1. /\ phase[p] = "writing" /\ m \in todo[p]
      /\ \/ /\ phase'[p] = "done" /\ todo'[p] = todo[p] /\ ended'[p] # "disconnected"
            /\ UNCHANGED inbox
         \/ /\ phase'[p] = "writing" /\ todo'[p] = todo[p] \ {m} /\ ended'[p] = ended[p]
            /\ inbox' = inbox \cup ({[id |-> m, from |-> p]} \cap Request)
      /\ Moves(p)
      /\ UNCHANGED <<bodyOf, chan, answers, pending, inMap, stdout>>
  BY DEF WriteMessage, Moves, End, Advance, RoutingIInv, RelayTypeOK, HandlersTypeOK
<1>. USE <1>1 DEF RoutingIInv, Moves
<1>2. TodoFits'
  BY DEF TodoFits, IdsOf
<1>3. PendingFits'
  BY DEF PendingFits, Registers, IdsOf, RelayTypeOK, HandlersTypeOK
<1>4. AskedOnce'
  <2>1. \A n : n.from = p /\ Asked(n) => Asked(n)'
    BY DEF Asked, IdsOf, RelayTypeOK, HandlersTypeOK
  <2>2. CASE UNCHANGED inbox
    BY <2>1, <2>2, AskedByOthers DEF RelayTypeOK
  <2>3. CASE /\ phase'[p] = "writing" /\ todo'[p] = todo[p] \ {m}
             /\ inbox' = inbox \cup ({[id |-> m, from |-> p]} \cap Request)
    <3>1. \A n : n.from \in Posts /\ n.id \in Ids /\ Asked(n) => Asked(n)'
      BY <2>1, AskedKept DEF RelayTypeOK
    <3>2. m \in Ids => m \in IdsOf(p) /\ Asked([id |-> m, from |-> p])'
      BY <2>3, NoteHasNoId DEF Asked, IdsOf, TodoFits
    <3>3. \A n : n.from \in Posts /\ n.id \in Ids /\ Asked(n) => n.id # m
      <4>. SUFFICES ASSUME NEW n, n.from \in Posts, m \in Ids, n.id = m, Asked(n)
                    PROVE  FALSE
        OBVIOUS
      <4>1. n.from = p
        BY <3>2, OneAsker DEF Asked, RelayTypeOK
      <4>. QED
        BY <4>1 DEF Asked
    <3>. QED
      BY <2>3, <3>1, <3>2, <3>3, MessagesTyped DEF AskedOnce, Request, RelayTypeOK
  <2>. QED
    BY <2>2, <2>3
<1>5. ChannelsFit'
  BY DEF ChannelsFit, Registers, IdsOf
<1>6. NothingLost'
  BY DEF NothingLost, Awaits, IdsOf
<1>7. AnswerIsOwn' /\ DisconnectedOnlyIfClosed'
  BY DEF AnswerIsOwn, DisconnectedOnlyIfClosed, IdsOf
<1>. QED
  BY <1>2, <1>3, <1>4, <1>5, <1>6, <1>7

LEMMA WritesDoneStep ==
  ASSUME RoutingIInv, NEW p \in Posts, WritesDone(p)
  PROVE  /\ TodoFits' /\ PendingFits' /\ AskedOnce' /\ ChannelsFit'
         /\ NothingLost' /\ AnswerIsOwn' /\ DisconnectedOnlyIfClosed'
<1>1. /\ phase[p] = "writing" /\ todo[p] = {}
      /\ \/ phase'[p] = "done" /\ todo'[p] = todo[p] /\ ended'[p] # "disconnected"
         \/ /\ phase'[p] = "registering" /\ todo'[p] = IdsOf(p) /\ ended'[p] = ended[p]
            /\ IdsOf(p) # {}
         \/ /\ phase'[p] = "collecting" /\ todo'[p] = IdsOf(p) /\ ended'[p] = ended[p]
            /\ ~inMap /\ IdsOf(p) # {}
      /\ Moves(p)
      /\ UNCHANGED <<bodyOf, chan, answers, pending, inMap, inbox, stdout>>
  BY DEF WritesDone, Moves, End, Advance, RoutingIInv, RelayTypeOK, HandlersTypeOK
<1>. USE <1>1 DEF RoutingIInv, Moves
<1>2. TodoFits'
  BY DEF TodoFits, IdsOf
<1>3. PendingFits'
  BY DEF PendingFits, Registers, IdsOf, RelayTypeOK, HandlersTypeOK
<1>4. AskedOnce'
  <2>1. \A m : m.from = p /\ Asked(m) => Asked(m)'
    BY DEF Asked, IdsOf
  <2>. QED
    BY <2>1, AskedByOthers DEF RelayTypeOK
<1>5. ChannelsFit'
  BY DEF ChannelsFit, Registers, IdsOf
<1>6. NothingLost'
  BY DEF NothingLost, Awaits, IdsOf
<1>7. AnswerIsOwn' /\ DisconnectedOnlyIfClosed'
  BY DEF AnswerIsOwn, DisconnectedOnlyIfClosed, IdsOf
<1>. QED
  BY <1>2, <1>3, <1>4, <1>5, <1>6, <1>7

LEMMA RegisterStep ==
  ASSUME RoutingIInv, NEW p \in Posts, NEW i \in Ids, RegisterPending(p, i)
  PROVE  /\ TodoFits' /\ PendingFits' /\ AskedOnce' /\ ChannelsFit'
         /\ NothingLost' /\ AnswerIsOwn' /\ DisconnectedOnlyIfClosed'
<1>1. /\ phase[p] = "registering" /\ i \in todo[p]
      /\ pending' = [pending EXCEPT ![i] = p]
      /\ \/ phase'[p] = "collecting" /\ todo'[p] = IdsOf(p) /\ todo[p] = {i}
         \/ phase'[p] = "registering" /\ todo'[p] = todo[p] \ {i}
      /\ ended'[p] = ended[p]
      /\ Moves(p)
      /\ UNCHANGED <<bodyOf, chan, answers, inMap, inbox, stdout>>
  BY DEF RegisterPending, Registered, Moves, Advance, RoutingIInv, RelayTypeOK, HandlersTypeOK
<1>2. i \in IdsOf(p) /\ todo[p] \subseteq IdsOf(p)
  BY <1>1 DEF RoutingIInv, TodoFits
<1>3. pending'[i] = p /\ \A j \in Ids \ {i} : pending'[j] = pending[j]
  BY <1>1 DEF RoutingIInv, RelayTypeOK, HandlersTypeOK
<1>. HIDE <1>1
<1>4. /\ phase[p] = "registering" /\ i \in todo[p] /\ ended'[p] = ended[p] /\ Moves(p)
      /\ \/ phase'[p] = "collecting" /\ todo'[p] = IdsOf(p) /\ todo[p] = {i}
         \/ phase'[p] = "registering" /\ todo'[p] = todo[p] \ {i}
      /\ UNCHANGED <<bodyOf, chan, answers, inMap, inbox, stdout>>
  BY <1>1
<1>. USE <1>2, <1>3, <1>4 DEF RoutingIInv, Moves
<1>5. TodoFits'
  BY DEF TodoFits, IdsOf
<1>6. PendingFits'
  BY DEF PendingFits, Registers, IdsOf, RelayTypeOK, HandlersTypeOK
<1>7. AskedOnce'
  <2>1. \A m : m.from = p /\ m.id \in Ids /\ Asked(m) => Asked(m)'
    BY DEF Asked, IdsOf
  <2>. QED
    BY <2>1, AskedByOthers DEF RelayTypeOK
<1>8. ChannelsFit'
  <2>1. ASSUME NEW q \in Posts, NEW k \in DOMAIN chan[q]
        PROVE  Registers(q, chan[q][k].id)' /\ pending'[chan[q][k].id] # q
    <3>1. Registers(q, chan[q][k].id) /\ pending[chan[q][k].id] # q
      BY DEF ChannelsFit
    <3>2. chan[q][k].id \in Ids
      BY <3>1, IdsAreFinite DEF Registers, RelayTypeOK
    <3>3. q = p => chan[q][k].id # i
      BY <3>1 DEF Registers
    <3>. QED
      BY <3>1, <3>2, <3>3 DEF Registers, IdsOf
  <2>. QED
    BY <2>1 DEF ChannelsFit
<1>9. NothingLost'
  <2>1. ASSUME NEW q \in Posts, NEW j \in Ids, Awaits(q, j)', Cardinality(IdsOf(q)) <= RespCap
        PROVE  pending'[j] = q \/ \E k \in DOMAIN chan[q] : chan[q][k].id = j
    <3>1. CASE q = p
      <4>1. j = i \/ Awaits(p, j)
        BY <2>1, <3>1 DEF Awaits, IdsOf
      <4>. QED
        BY <2>1, <3>1, <4>1 DEF NothingLost
    <3>2. CASE q # p
      <4>1. Awaits(q, j)
        BY <2>1, <3>2 DEF Awaits, IdsOf
      <4>2. j \in IdsOf(q)
        BY <4>1 DEF Awaits, TodoFits
      <4>3. j # i
        BY <3>2, <4>2, OneAsker DEF RelayTypeOK
      <4>. QED
        BY <2>1, <4>1, <4>3 DEF NothingLost
    <3>. QED
      BY <3>1, <3>2
  <2>. QED
    BY <2>1 DEF NothingLost, IdsOf
<1>10. AnswerIsOwn' /\ DisconnectedOnlyIfClosed'
  BY DEF AnswerIsOwn, DisconnectedOnlyIfClosed, IdsOf
<1>. QED
  BY <1>5, <1>6, <1>7, <1>8, <1>9, <1>10

LEMMA GiveUpStep ==
  ASSUME RoutingIInv, NEW p \in Posts, Disconnected(p) \/ Deadline(p)
  PROVE  /\ TodoFits' /\ PendingFits' /\ AskedOnce' /\ ChannelsFit'
         /\ NothingLost' /\ AnswerIsOwn' /\ DisconnectedOnlyIfClosed'
<1>1. /\ phase[p] = "collecting" /\ phase'[p] = "done"
      /\ ended'[p] = "disconnected" => ~inMap \/ (chan[p] = <<>> /\ \A i \in Ids : pending[i] # p)
      /\ Moves(p)
      /\ UNCHANGED <<bodyOf, todo, chan, answers, pending, inMap, inbox, stdout>>
  BY DEF Disconnected, SendersGone, Deadline, Moves, End, RoutingIInv, RelayTypeOK, HandlersTypeOK
<1>. USE <1>1 DEF RoutingIInv, Moves
<1>2. TodoFits'
  BY DEF TodoFits, IdsOf
<1>3. PendingFits'
  BY DEF PendingFits, Registers, IdsOf, RelayTypeOK, HandlersTypeOK
<1>4. AskedOnce'
  <2>1. \A m : m.from = p /\ Asked(m) => Asked(m)'
    BY DEF Asked, IdsOf
  <2>. QED
    BY <2>1, AskedByOthers DEF RelayTypeOK
<1>5. ChannelsFit'
  BY DEF ChannelsFit, Registers, IdsOf
<1>6. NothingLost'
  BY DEF NothingLost, Awaits, IdsOf
<1>7. AnswerIsOwn'
  BY DEF AnswerIsOwn, IdsOf
<1>8. DisconnectedOnlyIfClosed'
  <2>1. ASSUME ended'[p] = "disconnected", inMap, Cardinality(IdsOf(p)) <= RespCap
        PROVE  FALSE
    <3>1. PICK i \in todo[p] : i \in Ids
      BY IdsAreFinite DEF TodoFits, RelayTypeOK
    <3>. QED
      BY <2>1, <3>1 DEF NothingLost, Awaits
  <2>2. Cardinality(IdsOf(p)) <= RespCap \/ Cardinality(IdsOf(p)) > RespCap
    <3>1. Cardinality(IdsOf(p)) \in Nat /\ RespCap \in Nat
      BY IdsAreFinite, CapsPositive DEF RelayTypeOK
    <3>2. \A a, b \in Nat : a <= b \/ a > b
      OBVIOUS
    <3>. QED
      BY <3>1, <3>2
  <2>3. ended'[p] = "disconnected" => ~inMap \/ Cardinality(IdsOf(p)) > RespCap
    BY <2>1, <2>2
  <2>4. \A q \in Posts : IdsOf(q)' = IdsOf(q)
    BY DEF IdsOf
  <2>. QED
    BY <2>3, <2>4 DEF DisconnectedOnlyIfClosed
<1>. QED
  BY <1>2, <1>3, <1>4, <1>5, <1>6, <1>7, <1>8

LEMMA CollectStep ==
  ASSUME RoutingIInv, NEW p \in Posts, Collect(p)
  PROVE  /\ TodoFits' /\ PendingFits' /\ AskedOnce' /\ ChannelsFit'
         /\ NothingLost' /\ AnswerIsOwn' /\ DisconnectedOnlyIfClosed'
<1>0. PICK m, c : m = Head(chan[p]) /\ c = Tail(chan[p])
  OBVIOUS
<1>1. /\ phase[p] = "collecting" /\ chan[p] # <<>>
      /\ answers'[p] = {a \in answers[p] : a.id # m.id} \cup {m}
      /\ \/ phase'[p] = "done" /\ todo'[p] = todo[p] /\ ended'[p] # "disconnected"
         \/ /\ phase'[p] = "collecting" /\ todo'[p] = todo[p] \ {m.id} /\ ended'[p] = ended[p]
            /\ ~ todo[p] \subseteq {m.id}
      /\ chan'[p] = c
      /\ Moves(p)
      /\ UNCHANGED <<bodyOf, pending, inMap, inbox, stdout>>
  BY <1>0 DEF Collect, Moves, End, Advance, RoutingIInv, RelayTypeOK, HandlersTypeOK
<1>2. /\ m = chan[p][1] /\ 1 \in DOMAIN chan[p]
      /\ Len(c) = Len(chan[p]) - 1 /\ Len(chan[p]) \in Nat \ {0}
      /\ \A k \in DOMAIN c : c[k] = chan[p][k + 1] /\ k + 1 \in DOMAIN chan[p] /\ k \in Nat /\ k + 1 # 1
      /\ \A j, k \in DOMAIN c : j + 1 = k + 1 => j = k
      /\ \A k \in DOMAIN chan[p] : k # 1 => k - 1 \in DOMAIN c /\ c[k - 1] = chan[p][k]
  <2>1. chan[p] \in Seq(Said) /\ chan[p] # <<>>
    BY <1>1 DEF RoutingIInv, RelayTypeOK, HandlersTypeOK
  <2>. QED
    BY <1>0, <2>1
<1>3. /\ \A k \in DOMAIN chan[p] :
           /\ Registers(p, chan[p][k].id) /\ chan[p][k].from \in {p, Nobody}
           /\ pending[chan[p][k].id] # p
           /\ \A j \in DOMAIN chan[p] : chan[p][j].id = chan[p][k].id => j = k
      /\ Len(chan[p]) <= RespCap
  BY DEF RoutingIInv, ChannelsFit
<1>4. /\ Registers(p, m.id) /\ m.from \in {p, Nobody} /\ pending[m.id] # p
      /\ \A k \in DOMAIN c :
           /\ Registers(p, c[k].id) /\ c[k].from \in {p, Nobody}
           /\ pending[c[k].id] # p /\ c[k].id # m.id
           /\ \A j \in DOMAIN c : c[j].id = c[k].id => j = k
  BY <1>2, <1>3
<1>5. TodoFits'
  BY <1>1 DEF RoutingIInv, TodoFits, IdsOf, Moves
<1>6. \A i : Registers(p, i) /\ i # m.id => Registers(p, i)'
  BY <1>1 DEF Registers, IdsOf
<1>7. PendingFits'
  <2>1. \A q \in Posts \ {p} : \A i : Registers(q, i) => Registers(q, i)'
    BY <1>1 DEF Registers, Moves, IdsOf
  <2>. QED
    BY <1>1, <1>4, <1>6, <2>1 DEF RoutingIInv, PendingFits, RelayTypeOK, HandlersTypeOK
<1>8. AskedOnce'
  <2>1. \A n : n.from = p /\ n.id \in Ids /\ Asked(n) => Asked(n)'
    BY <1>1 DEF Asked, IdsOf
  <2>. QED
    BY <1>1, <2>1, AskedByOthers DEF RoutingIInv, RelayTypeOK
<1>9. ChannelsFit'
  <2>1. \A q \in Posts \ {p} : \A i : Registers(q, i) => Registers(q, i)'
    BY <1>1 DEF Registers, Moves, IdsOf
  <2>2. \A k \in DOMAIN c : Registers(p, c[k].id)'
    BY <1>4, <1>6
  <2>3. Len(c) <= RespCap
    BY <1>2, <1>3, CapsPositive
  <2>. QED
    BY <1>1, <1>4, <2>1, <2>2, <2>3 DEF RoutingIInv, ChannelsFit, Moves
<1>10. NothingLost'
  <2>1. ASSUME NEW i \in Ids, Awaits(p, i)', Cardinality(IdsOf(p)) <= RespCap
        PROVE  pending[i] = p \/ \E k \in DOMAIN c : c[k].id = i
    <3>1. Awaits(p, i) /\ i # m.id
      BY <1>1, <2>1 DEF Awaits, IdsOf
    <3>2. pending[i] = p \/ \E k \in DOMAIN chan[p] : chan[p][k].id = i
      BY <2>1, <3>1 DEF RoutingIInv, NothingLost
    <3>. QED
      BY <1>2, <3>1, <3>2
  <2>2. \A q \in Posts \ {p} : \A i : Awaits(q, i)' => Awaits(q, i)
    BY <1>1 DEF Awaits, IdsOf, Moves
  <2>3. \A q \in Posts : IdsOf(q)' = IdsOf(q)
    BY <1>1 DEF IdsOf
  <2>. QED
    BY <1>1, <2>1, <2>2, <2>3 DEF RoutingIInv, NothingLost, Moves
<1>11. AnswerIsOwn'
  BY <1>1, <1>4 DEF RoutingIInv, AnswerIsOwn, IdsOf, Registers, Moves
<1>12. DisconnectedOnlyIfClosed'
  BY <1>1 DEF RoutingIInv, DisconnectedOnlyIfClosed, IdsOf, Moves
<1>. QED
  BY <1>5, <1>7, <1>8, <1>9, <1>10, <1>11, <1>12

-----------------------------------------------------------------------------
(* The steps of the child and of the relay thread                          *)

LEMMA ChildStep ==
  ASSUME RoutingIInv,
         ChildNotifies \/ ChildDies \/ CloseSession \/ \E m \in Request : ChildAnswers(m)
  PROVE  /\ TodoFits' /\ PendingFits' /\ AskedOnce' /\ ChannelsFit'
         /\ NothingLost' /\ AnswerIsOwn' /\ DisconnectedOnlyIfClosed'
<1>1. UNCHANGED handlerVars /\ inMap' \in {inMap, FALSE}
  BY DEF ChildNotifies, ChildDies, CloseSession, ChildAnswers
<1>2. TodoFits' /\ AnswerIsOwn'
  BY <1>1 DEF RoutingIInv, handlerVars, TodoFits, IdsOf, AnswerIsOwn
<1>8. DisconnectedOnlyIfClosed'
  <2>1. \A p \in Posts : IdsOf(p)' = IdsOf(p) /\ ended'[p] = ended[p]
    BY <1>1 DEF handlerVars, IdsOf
  <2>. QED
    BY <1>1, <2>1 DEF RoutingIInv, DisconnectedOnlyIfClosed
<1>3. PendingFits'
  BY <1>1 DEF RoutingIInv, handlerVars, PendingFits, Registers, IdsOf
<1>4. ChannelsFit'
  BY <1>1 DEF RoutingIInv, handlerVars, ChannelsFit, Registers, IdsOf
<1>5. NothingLost'
  BY <1>1 DEF RoutingIInv, handlerVars, NothingLost, Awaits, IdsOf
<1>6. \A m : Asked(m) => Asked(m)'
  BY <1>1 DEF handlerVars, Asked, IdsOf
<1>7. AskedOnce'
  <2>1. CASE UNCHANGED stdout /\ inbox' \subseteq inbox
    BY <1>6, <2>1 DEF RoutingIInv, AskedOnce
  <2>2. CASE ChildNotifies
    <3>1. stdout \in Seq(Answer \cup [id : {Note}, number : Nat])
      BY DEF RoutingIInv, RelayTypeOK, ChildTypeOK
    <3>2. \A k \in DOMAIN stdout' :
            stdout'[k].id # Note => k \in DOMAIN stdout /\ stdout'[k] = stdout[k]
      BY <2>2, <3>1 DEF ChildNotifies, Notice
    <3>. QED
      BY <1>6, <2>2, <3>2 DEF RoutingIInv, AskedOnce, ChildNotifies
  <2>3. ASSUME NEW m \in Request, ChildAnswers(m)
        PROVE  AskedOnce'
    <3>1. stdout \in Seq(Answer \cup [id : {Note}, number : Nat])
      BY DEF RoutingIInv, RelayTypeOK, ChildTypeOK
    <3>2. PICK a \in Answer : stdout' = Append(stdout, a) /\ a.id = m.id /\ a.from = m.from
      BY <2>3 DEF ChildAnswers, Request, Answer
    <3>3. m \in inbox /\ inbox' = inbox \ {m}
      BY <2>3 DEF ChildAnswers
    <3>4. \A k \in DOMAIN stdout' : \/ k \in DOMAIN stdout /\ stdout'[k] = stdout[k]
                                    \/ k = Len(stdout) + 1 /\ stdout'[k] = a
      BY <3>1, <3>2
    <3>5. Asked(a)'
      BY <1>6, <3>2, <3>3 DEF RoutingIInv, AskedOnce, Asked
    <3>6. \A n \in inbox : n.id = m.id => n = m
      <4>. SUFFICES ASSUME NEW n \in inbox, n.id = m.id PROVE n = m
        OBVIOUS
      <4>1. n \in Request /\ m \in Request /\ Asked(n) /\ Asked(m)
        BY <3>3 DEF RoutingIInv, RelayTypeOK, ChildTypeOK, AskedOnce
      <4>2. n.from = m.from
        BY <4>1, OneAsker DEF RoutingIInv, RelayTypeOK, Asked, Request
      <4>. QED
        BY <4>1, <4>2 DEF Request
    <3>7. \A k \in DOMAIN stdout : stdout[k].id # Note => stdout[k].id # a.id
      BY <3>2, <3>3 DEF RoutingIInv, AskedOnce
    <3>. QED
      BY <1>6, <3>2, <3>3, <3>4, <3>5, <3>6, <3>7 DEF RoutingIInv, AskedOnce
  <2>. QED
    BY <2>1, <2>2, <2>3 DEF ChildDies, CloseSession
<1>. QED
  BY <1>2, <1>3, <1>4, <1>5, <1>7, <1>8

\* Taking the first message off the child's output leaves the others as they
\* were.
LEMMA TailKeeps ==
  ASSUME ChildTypeOK, AskedOnce, stdout # <<>>, stdout' = Tail(stdout), UNCHANGED inbox,
         \A m : m.from \in Posts /\ m.id \in Ids /\ m.id # Head(stdout).id /\ Asked(m) => Asked(m)'
  PROVE  /\ Head(stdout).id # Note => Asked(Head(stdout)) /\ AskedOnce'
         /\ (\A m : m.from \in Posts /\ m.id \in Ids /\ Asked(m) => Asked(m)') => AskedOnce'
<1>1. stdout \in Seq(Answer \cup [id : {Note}, number : Nat]) /\ stdout # <<>>
  BY DEF ChildTypeOK
<1>0. PICK t : t = Tail(stdout)
  OBVIOUS
<1>2. /\ Head(stdout) = stdout[1] /\ 1 \in DOMAIN stdout
      /\ \A k \in DOMAIN t : t[k] = stdout[k + 1] /\ k + 1 \in DOMAIN stdout /\ k + 1 # 1
      /\ \A j, k \in DOMAIN t : j + 1 = k + 1 => j = k
  BY <1>0, <1>1
<1>3. \A k \in DOMAIN t : t[k].id # Note =>
        /\ t[k].from \in Posts /\ t[k].id \in Ids /\ Asked(t[k])
        /\ \A m \in inbox : m.id # t[k].id
        /\ \A j \in DOMAIN t : t[j].id = t[k].id => j = k
  BY <1>2, MessagesTyped DEF AskedOnce
<1>4. \A m \in inbox : m.from \in Posts /\ m.id \in Ids /\ Asked(m)
  BY MessagesTyped DEF AskedOnce
<1>5. ASSUME Head(stdout).id # Note
      PROVE  Asked(Head(stdout)) /\ AskedOnce'
  <2>1. /\ Asked(stdout[1]) /\ \A m \in inbox : m.id # stdout[1].id
        /\ \A k \in DOMAIN t : t[k].id # stdout[1].id
    BY <1>2, <1>5 DEF AskedOnce
  <2>2. /\ \A m \in inbox : Asked(m)'
        /\ \A k \in DOMAIN t : t[k].id # Note => Asked(t[k])'
    BY <1>2, <1>3, <1>4, <2>1
  <2>. QED
    BY <1>0, <1>2, <1>3, <2>1, <2>2 DEF AskedOnce
<1>6. ASSUME \A m : m.from \in Posts /\ m.id \in Ids /\ Asked(m) => Asked(m)'
      PROVE  AskedOnce'
  BY <1>0, <1>3, <1>4, <1>6 DEF AskedOnce
<1>. QED
  BY <1>5, <1>6

LEMMA RouteResponseStep ==
  ASSUME RoutingIInv, RouteResponse
  PROVE  /\ TodoFits' /\ PendingFits' /\ AskedOnce' /\ ChannelsFit'
         /\ NothingLost' /\ AnswerIsOwn' /\ DisconnectedOnlyIfClosed'
<1>0. PICK m \in Answer : m = Head(stdout)
  BY HeadIsMessage DEF RouteResponse, RoutingIInv, RelayTypeOK
<1>1. /\ m.id \in Ids /\ m.from \in Posts
      /\ stdout # <<>> /\ stdout' = Tail(stdout)
      /\ pending' = [pending EXCEPT ![m.id] = Nobody]
      /\ UNCHANGED <<bodyOf, phase, todo, answers, ended, inMap, inbox>>
  BY <1>0, NoteHasNoId DEF RouteResponse, Answer
<1>2. /\ pending'[m.id] = Nobody /\ \A i \in Ids \ {m.id} : pending'[i] = pending[i]
      /\ \A p \in Posts : \A i \in Ids : pending'[i] = p => pending[i] = p
      /\ \A p, i : Registers(p, i) => Registers(p, i)'
      /\ \A p, i : Awaits(p, i)' => Awaits(p, i)
      /\ \A p \in Posts : IdsOf(p)' = IdsOf(p)
  BY <1>1, NobodyIsNoPost DEF RoutingIInv, RelayTypeOK, HandlersTypeOK, Registers, IdsOf, Awaits
<1>3. Asked(m) /\ AskedOnce'
  <2>1. \A n : n.from \in Posts /\ n.id \in Ids /\ n.id # m.id /\ Asked(n) => Asked(n)'
    BY <1>1, <1>2 DEF Asked, IdsOf
  <2>2. m.id # Note
    BY <1>1, NoteHasNoId
  <2>. QED
    BY <1>0, <1>1, <2>1, <2>2, TailKeeps DEF RoutingIInv, RelayTypeOK
<1>4. TodoFits' /\ AnswerIsOwn'
  BY <1>1 DEF RoutingIInv, TodoFits, IdsOf, AnswerIsOwn
<1>5. DisconnectedOnlyIfClosed'
  BY <1>1, <1>2 DEF RoutingIInv, DisconnectedOnlyIfClosed
<1>6. PendingFits'
  BY <1>1, <1>2 DEF RoutingIInv, PendingFits
<1>7. CASE pending[m.id] = Nobody
  <2>1. chan' = chan /\ \A i \in Ids : pending'[i] = pending[i]
    BY <1>0, <1>2, <1>7, NobodyIsNoPost DEF RouteResponse, Receiver
  <2>2. ChannelsFit'
    <3>1. \A p \in Posts : \A k \in DOMAIN chan[p] :
            Registers(p, chan[p][k].id)' /\ chan[p][k].id \in Ids
      <4>. SUFFICES ASSUME NEW p \in Posts, NEW k \in DOMAIN chan[p], NEW i, i = chan[p][k].id
                    PROVE  Registers(p, i)' /\ i \in Ids
        BY <2>1
      <4>1. Registers(p, i)
        BY DEF RoutingIInv, ChannelsFit
      <4>. QED
        BY <1>2, <4>1, IdsAreFinite DEF RoutingIInv, RelayTypeOK, Registers
    <3>. QED
      BY <1>2, <2>1, <3>1 DEF RoutingIInv, ChannelsFit
  <2>3. NothingLost'
    BY <1>2, <2>1 DEF RoutingIInv, NothingLost
  <2>. QED
    BY <1>3, <1>4, <1>5, <1>6, <2>2, <2>3
<1>8. CASE pending[m.id] # Nobody
  <2>1. PICK q \in Posts : pending[m.id] = q
    BY <1>1, <1>8 DEF RoutingIInv, RelayTypeOK, HandlersTypeOK
  <2>2. Registers(q, m.id) /\ q = m.from
    BY <1>1, <1>3, <1>8, <2>1, OneAsker
    DEF RoutingIInv, PendingFits, Registers, Asked, RelayTypeOK
  <2>3. PICK a : a = [id |-> m.id, from |-> m.from]
    OBVIOUS
  <2>4. chan' = [chan EXCEPT ![q] = Deliver(q, a)]
    BY <1>0, <2>1, <2>3, NobodyIsNoPost DEF RouteResponse, Receiver
  <2>5. chan'[q] = Deliver(q, a) /\ \A p \in Posts \ {q} : chan'[p] = chan[p]
    BY <2>4 DEF RoutingIInv, RelayTypeOK, HandlersTypeOK
  <2>6. chan[q] \in Seq(Said) /\ a \in Said
    BY <2>3 DEF RoutingIInv, RelayTypeOK, HandlersTypeOK, Said, Answer
  <2>7. PICK c : c = Deliver(q, a)
    OBVIOUS
  <2>8. /\ c = chan[q] \/ (Len(chan[q]) < RespCap /\ Len(c) = Len(chan[q]) + 1 /\ Len(chan[q]) + 1 \in DOMAIN c
                            /\ c[Len(chan[q]) + 1] = a)
        /\ \A k \in DOMAIN chan[q] : k \in DOMAIN c /\ c[k] = chan[q][k]
        /\ \A k \in DOMAIN c : (k \in DOMAIN chan[q] /\ c[k] = chan[q][k])
                               \/ (k = Len(chan[q]) + 1 /\ c[k] = a)
        /\ Len(chan[q]) <= RespCap => Len(c) <= RespCap
    BY <2>6, <2>7, CapsPositive DEF Deliver
  <2>9. ChannelsFit'
    <3>1. /\ \A k \in DOMAIN chan[q] :
             /\ Registers(q, chan[q][k].id) /\ chan[q][k].from \in {q, Nobody}
             /\ chan[q][k].id # m.id
             /\ pending[chan[q][k].id] # q
             /\ \A j \in DOMAIN chan[q] : chan[q][j].id = chan[q][k].id => j = k
          /\ Len(chan[q]) <= RespCap
      BY <2>1 DEF RoutingIInv, ChannelsFit
    <3>2. \A k \in DOMAIN c :
             /\ Registers(q, c[k].id) /\ c[k].from \in {q, Nobody}
             /\ c[k].id = m.id \/ pending[c[k].id] # q
             /\ \A j \in DOMAIN c : c[j].id = c[k].id => j = k
      BY <2>2, <2>3, <2>8, <3>1
    <3>3. \A p \in Posts : \A i : Registers(p, i) => i \in Ids /\ Registers(p, i)'
      BY <1>2, IdsAreFinite DEF RoutingIInv, RelayTypeOK, Registers
    <3>4. \A k \in DOMAIN c : Registers(q, c[k].id)' /\ pending'[c[k].id] # q
      BY <1>2, <3>2, <3>3, NobodyIsNoPost
    <3>5. Len(c) <= RespCap
      BY <2>8, <3>1
    <3>6. ASSUME NEW p \in Posts \ {q}, NEW k \in DOMAIN chan[p]
          PROVE  Registers(p, chan[p][k].id)' /\ pending'[chan[p][k].id] # p
      <4>1. PICK i : i = chan[p][k].id
        OBVIOUS
      <4>2. Registers(p, i) /\ pending[i] # p
        BY <4>1 DEF RoutingIInv, ChannelsFit
      <4>. QED
        BY <1>2, <2>5, <3>3, <4>1, <4>2
    <3>. QED
      BY <2>5, <2>7, <3>2, <3>4, <3>5, <3>6 DEF RoutingIInv, ChannelsFit
  <2>10. NothingLost'
    <3>1. ASSUME NEW p \in Posts, NEW i \in Ids, Awaits(p, i), Cardinality(IdsOf(p)) <= RespCap
          PROVE  pending'[i] = p \/ \E k \in DOMAIN chan'[p] : chan'[p][k].id = i
      <4>1. pending[i] = p \/ \E k \in DOMAIN chan[p] : chan[p][k].id = i
        BY <3>1 DEF RoutingIInv, NothingLost
      <4>2. CASE p # q
        BY <1>2, <2>1, <2>5, <4>1, <4>2
      <4>3. CASE p = q /\ i # m.id
        BY <1>2, <2>5, <2>7, <2>8, <4>1, <4>3
      <4>4. CASE p = q /\ i = m.id
        <5>1. Len(chan[q]) + Cardinality(Registered0(q)) <= RespCap
          <6>1. /\ Len(chan[q]) + Cardinality(Registered0(q)) <= Cardinality(IdsOf(q))
                /\ Cardinality(Registered0(q)) \in Nat /\ Cardinality(IdsOf(q)) \in Nat
            BY RoomForRegistered, RegisteredAreFinite, IdsAreFinite DEF RoutingIInv, RelayTypeOK
          <6>2. \A a1, b1, c1, d1 \in Nat : a1 + b1 <= c1 /\ c1 <= d1 => a1 + b1 <= d1
            OBVIOUS
          <6>. QED
            BY <2>6, <3>1, <4>4, <6>1, <6>2, CapsPositive
        <5>2. i \in Registered0(q)
          BY <2>1, <4>4 DEF Registered0
        <5>3. Cardinality(Registered0(q)) \in Nat \ {0}
          BY <5>2, RegisteredAreFinite, FS_EmptySet DEF RoutingIInv, RelayTypeOK
        <5>4. Len(chan[q]) < RespCap
          BY <2>6, <5>1, <5>3, CapsPositive
        <5>5. c = Append(chan[q], a)
          BY <2>7, <5>4 DEF Deliver
        <5>6. Len(chan[q]) + 1 \in DOMAIN c /\ c[Len(chan[q]) + 1] = a
          BY <2>6, <5>5
        <5>. QED
          BY <2>3, <2>5, <2>7, <4>4, <5>6
      <4>. QED
        BY <4>2, <4>3, <4>4
    <3>. QED
      BY <1>2, <3>1 DEF NothingLost
  <2>. QED
    BY <1>3, <1>4, <1>5, <1>6, <2>9, <2>10
<1>. QED
  BY <1>7, <1>8

LEMMA RoutingUnmoved ==
  ASSUME RoutingIInv, UNCHANGED <<handlerVars, inMap, inbox>>,
         \/ UNCHANGED stdout
         \/ stdout # <<>> /\ Head(stdout).id = Note /\ stdout' = Tail(stdout)
  PROVE  /\ TodoFits' /\ PendingFits' /\ AskedOnce' /\ ChannelsFit'
         /\ NothingLost' /\ AnswerIsOwn' /\ DisconnectedOnlyIfClosed'
<1>1. TodoFits' /\ AnswerIsOwn'
  BY DEF RoutingIInv, handlerVars, TodoFits, IdsOf, AnswerIsOwn
<1>2. DisconnectedOnlyIfClosed'
  <2>1. \A p \in Posts : IdsOf(p)' = IdsOf(p) /\ ended'[p] = ended[p]
    BY DEF handlerVars, IdsOf
  <2>. QED
    BY <2>1 DEF RoutingIInv, DisconnectedOnlyIfClosed
<1>3. PendingFits'
  BY DEF RoutingIInv, handlerVars, PendingFits, Registers, IdsOf
<1>4. ChannelsFit'
  BY DEF RoutingIInv, handlerVars, ChannelsFit, Registers, IdsOf
<1>5. NothingLost'
  BY DEF RoutingIInv, handlerVars, NothingLost, Awaits, IdsOf
<1>6. AskedOnce'
  <2>1. \A m : Asked(m) => Asked(m)'
    BY DEF handlerVars, Asked, IdsOf
  <2>2. CASE UNCHANGED stdout
    BY <2>1, <2>2 DEF RoutingIInv, AskedOnce
  <2>3. CASE stdout # <<>> /\ stdout' = Tail(stdout)
    BY <2>1, <2>3, TailKeeps DEF RoutingIInv, RelayTypeOK
  <2>. QED
    BY <2>2, <2>3
<1>. QED
  BY <1>1, <1>2, <1>3, <1>4, <1>5, <1>6

\* The relay fails what is registered when nothing is left to read.
LEMMA FailStep ==
  ASSUME RoutingIInv, FailPending
  PROVE  /\ TodoFits' /\ PendingFits' /\ AskedOnce' /\ ChannelsFit'
         /\ NothingLost' /\ AnswerIsOwn' /\ DisconnectedOnlyIfClosed'
<1>1. /\ UNCHANGED <<bodyOf, phase, todo, answers, ended, inMap, inbox, stdout>>
      /\ \A i \in Ids : pending'[i] = Nobody
      /\ \A p \in Posts : chan'[p] \in FailureOf(p)
      /\ inbox = {} /\ stdout = <<>>
      /\ \A p \in Posts : Len(chan[p]) <= RespCap
  BY DEF FailPending, RoutingIInv, RelayLast, ChannelsFit
<1>2. /\ \A p, i : Registers(p, i) => Registers(p, i)'
      /\ \A p, i : Awaits(p, i)' => Awaits(p, i)
      /\ \A p \in Posts : IdsOf(p)' = IdsOf(p)
  BY <1>1 DEF Registers, Awaits, IdsOf
<1>3. TodoFits' /\ AnswerIsOwn' /\ PendingFits'
  BY <1>1 DEF RoutingIInv, TodoFits, IdsOf, AnswerIsOwn, PendingFits
<1>4. DisconnectedOnlyIfClosed'
  BY <1>1, <1>2 DEF RoutingIInv, DisconnectedOnlyIfClosed
<1>5. AskedOnce'
  BY <1>1 DEF AskedOnce
<1>6. ASSUME NEW p \in Posts
      PROVE  /\ Len(chan'[p]) <= RespCap
             /\ \A k \in DOMAIN chan'[p] :
                  /\ Registers(p, chan'[p][k].id)
                  /\ chan'[p][k].from \in {p, Nobody}
                  /\ \A j \in DOMAIN chan'[p] : chan'[p][j].id = chan'[p][k].id => j = k
             /\ \A i \in Ids : (Awaits(p, i) /\ Cardinality(IdsOf(p)) <= RespCap) =>
                  \E k \in DOMAIN chan'[p] : chan'[p][k].id = i
  <2>1. PICK c \in FailureOf(p) : c = chan'[p]
    BY <1>1
  <2>2. /\ c \in Seq(Said) /\ Len(chan[p]) <= Len(c) /\ Len(c) <= RespCap
        /\ \A k \in DOMAIN chan[p] : c[k] = chan[p][k]
        /\ \A k \in DOMAIN c \ DOMAIN chan[p] :
             c[k].from = Nobody /\ c[k].id \in Ids /\ pending[c[k].id] = p
        /\ \A j, k \in DOMAIN c \ DOMAIN chan[p] : c[j].id = c[k].id => j = k
        /\ Len(chan[p]) + Cardinality(Registered0(p)) <= RespCap =>
             \A i \in Registered0(p) : \E k \in DOMAIN c : c[k].id = i
    BY <1>1, FailureShape DEF RoutingIInv, RelayTypeOK
  <2>3. \A k \in DOMAIN chan[p] :
          /\ Registers(p, chan[p][k].id) /\ chan[p][k].from \in {p, Nobody}
          /\ pending[chan[p][k].id] # p
          /\ \A j \in DOMAIN chan[p] : chan[p][j].id = chan[p][k].id => j = k
    BY DEF RoutingIInv, ChannelsFit
  <2>4. \A i \in Ids : pending[i] = p => Registers(p, i)
    BY NobodyIsNoPost DEF RoutingIInv, PendingFits
  <2>5. \A k \in DOMAIN c :
          /\ Registers(p, c[k].id) /\ c[k].from \in {p, Nobody}
          /\ \A j \in DOMAIN c : c[j].id = c[k].id => j = k
    BY <2>2, <2>3, <2>4
  <2>6. ASSUME NEW i \in Ids, Awaits(p, i), Cardinality(IdsOf(p)) <= RespCap
        PROVE  \E k \in DOMAIN c : c[k].id = i
    <3>1. pending[i] = p \/ \E k \in DOMAIN chan[p] : chan[p][k].id = i
      BY <2>6 DEF RoutingIInv, NothingLost
    <3>2. CASE pending[i] = p
      <4>1. i \in Registered0(p)
        BY <3>2 DEF Registered0
      <4>2. Len(chan[p]) + Cardinality(Registered0(p)) <= RespCap
        <5>1. /\ Len(chan[p]) + Cardinality(Registered0(p)) <= Cardinality(IdsOf(p))
              /\ Cardinality(Registered0(p)) \in Nat /\ Cardinality(IdsOf(p)) \in Nat
          BY RoomForRegistered, RegisteredAreFinite, IdsAreFinite DEF RoutingIInv, RelayTypeOK
        <5>2. \A a1, b1, c1, d1 \in Nat : a1 + b1 <= c1 /\ c1 <= d1 => a1 + b1 <= d1
          OBVIOUS
        <5>3. Len(chan[p]) \in Nat
          BY DEF RoutingIInv, RelayTypeOK, HandlersTypeOK
        <5>. QED
          BY <2>6, <5>1, <5>2, <5>3, CapsPositive
      <4>. QED
        BY <2>2, <4>1, <4>2
    <3>3. CASE \E k \in DOMAIN chan[p] : chan[p][k].id = i
      <4>1. PICK k \in DOMAIN chan[p] : chan[p][k].id = i
        BY <3>3
      <4>2. k \in DOMAIN c
        BY <2>2 DEF RoutingIInv, RelayTypeOK, HandlersTypeOK
      <4>. QED
        BY <2>2, <4>1, <4>2
    <3>. QED
      BY <3>1, <3>2, <3>3
  <2>. QED
    BY <2>1, <2>2, <2>5, <2>6
<1>7. ChannelsFit'
  <2>. SUFFICES ASSUME NEW p \in Posts, NEW k \in DOMAIN chan'[p], NEW i, i = chan'[p][k].id
                PROVE  Registers(p, i)' /\ pending'[i] # p
    BY <1>6 DEF ChannelsFit
  <2>1. Registers(p, i)
    BY <1>6
  <2>2. i \in Ids
    BY <2>1, IdsAreFinite DEF Registers, RoutingIInv, RelayTypeOK
  <2>. QED
    BY <1>1, <1>2, <2>1, <2>2, NobodyIsNoPost
<1>8. NothingLost'
  BY <1>2, <1>6 DEF NothingLost
<1>. QED
  BY <1>3, <1>4, <1>5, <1>7, <1>8

LEMMA LastStep ==
  ASSUME RelayLast, ChildTypeOK, [RelayNext]_rvars
  PROVE  RelayLast'
<1>. USE DEF RelayLast
<1>1. ASSUME NEW p \in Posts, StartPost(p) \/ Handler(p) \/ Deadline(p)
      PROVE  RelayLast'
  <2>1. UNCHANGED <<alive, stdout, relay>> /\ (inbox' = inbox \/ alive)
    BY <1>1 DEF StartPost, Handler, WriteMessage, WritesDone, RegisterPending, Collect,
                Disconnected, Deadline
  <2>. QED
    BY <2>1
<1>2. CASE ChildNotifies \/ ChildDies \/ CloseSession \/ \E m \in Request : ChildAnswers(m)
  BY <1>2 DEF ChildNotifies, ChildDies, CloseSession, ChildAnswers
<1>3. CASE Relay
  BY <1>3 DEF Relay, RouteResponse, RouteNotification, RelayReadError, FailPending
<1>4. CASE OpenStream \/ WriteNotice \/ StreamEnds \/ UNCHANGED rvars
  BY <1>4 DEF OpenStream, WriteNotice, StreamEnds, rvars
<1>. QED
  BY <1>1, <1>2, <1>3, <1>4 DEF RelayNext

-----------------------------------------------------------------------------
(* Theorems                                                                *)

LEMMA RoutingStep ==
  ASSUME RoutingIInv, [RelayNext]_rvars
  PROVE  RoutingIInv'
<1>1. RelayTypeOK'
  BY TypeStep DEF RoutingIInv
<1>2. RelayLast'
  BY LastStep DEF RoutingIInv, RelayTypeOK
<1>3. /\ TodoFits' /\ PendingFits' /\ AskedOnce' /\ ChannelsFit'
      /\ NothingLost' /\ AnswerIsOwn' /\ DisconnectedOnlyIfClosed'
  <2>1. ASSUME NEW p \in Posts, StartPost(p) \/ Handler(p) \/ Deadline(p)
        PROVE  /\ TodoFits' /\ PendingFits' /\ AskedOnce' /\ ChannelsFit'
               /\ NothingLost' /\ AnswerIsOwn' /\ DisconnectedOnlyIfClosed'
    BY <2>1, StartStep, WriteStep, WritesDoneStep, RegisterStep, CollectStep, GiveUpStep
    DEF Handler
  <2>2. CASE Relay
    <3>1. CASE RouteResponse
      BY <3>1, RouteResponseStep
    <3>2. CASE RouteNotification
      BY <3>2, RoutingUnmoved DEF RouteNotification
    <3>3. CASE RelayReadError
      BY <3>3, RoutingUnmoved DEF RelayReadError
    <3>4. CASE FailPending
      BY <3>4, FailStep
    <3>. QED
      BY <2>2, <3>1, <3>2, <3>3, <3>4 DEF Relay
  <2>3. CASE OpenStream \/ WriteNotice \/ StreamEnds \/ UNCHANGED rvars
    <3>1. UNCHANGED <<handlerVars, inMap, inbox, stdout>>
      BY <2>3 DEF OpenStream, WriteNotice, StreamEnds, rvars
    <3>. QED
      BY <3>1, RoutingUnmoved
  <2>. QED
    BY <2>1, <2>2, <2>3, ChildStep DEF RelayNext
<1>. QED
  BY <1>1, <1>2, <1>3 DEF RoutingIInv

\* Every reachable state satisfies the invariant the routing rests on: who
\* registered what, and where each answer is.
THEOREM RoutingInvariant == RelaySpec => []RoutingIInv
<1>1. RelayInit => RoutingIInv
  BY RelayInitially
<1>2. RoutingIInv /\ [RelayNext]_rvars => RoutingIInv'
  BY RoutingStep
<1>. QED
  BY <1>1, <1>2, PTL DEF RelaySpec

\* Answers are collected by those who asked: the id in a channel is one of its
\* handler's, whoever else gave up, and no two handlers use one.
THEOREM AnswersAreOwn == RelaySpec => []AnswerIsOwn
  BY RoutingInvariant, PTL DEF RoutingIInv

\* A handler that sees all senders gone has been answered, by the child or by
\* the relay's last act, unless the session is gone or the channel too small.
THEOREM DisconnectIsExcused == RelaySpec => []DisconnectedOnlyIfClosed
  BY RoutingInvariant, PTL DEF RoutingIInv

\* An answer finds its handler registered except in the windows named.
THEOREM DiscardsAreExcused == RelaySpec => DiscardedOnlyUnregistered
<1>1. ASSUME RoutingIInv, [RelayNext]_rvars
      PROVE  [\A m \in {stdout[k] : k \in DOMAIN stdout} :
                (Discards(m) /\ stdout' = Tail(stdout)) =>
                  \/ phase[m.from] \in {"writing", "done"}
                  \/ phase[m.from] = "registering" /\ m.id \in todo[m.from]
                  \/ phase[m.from] = "collecting" /\ ~inMap]_rvars
  <2>. SUFFICES ASSUME NEW k \in DOMAIN stdout, Discards(stdout[k])
                PROVE  LET m == stdout[k] IN
                         \/ phase[m.from] \in {"writing", "done"}
                         \/ phase[m.from] = "registering" /\ m.id \in todo[m.from]
                         \/ phase[m.from] = "collecting" /\ ~inMap
    OBVIOUS
  <2>1. PICK m : m = stdout[k]
    OBVIOUS
  <2>2. m.from \in Posts /\ m.id \in Ids /\ Asked(m) /\ pending[m.id] = Nobody
    BY <1>1, <2>1, MessagesTyped DEF Discards, Receiver, RoutingIInv, RelayTypeOK, AskedOnce
  <2>3. phase[m.from] \in {"start", "writing", "registering", "collecting", "done"}
    BY <1>1, <2>2 DEF RoutingIInv, RelayTypeOK, HandlersTypeOK
  <2>. QED
    BY <2>1, <2>2, <2>3, NobodyIsNoPost DEF Asked
<1>. QED
  BY <1>1, RoutingInvariant, PTL DEF RelaySpec, DiscardedOnlyUnregistered

-----------------------------------------------------------------------------
(* The notifications                                                       *)

Increasing(s) == \A j, k \in DOMAIN s : j < k => s[j] < s[k]
UpTo(s, n) == \A k \in DOMAIN s : s[k] <= n
InOrder == \A j, k \in Noted : j < k => stdout[j].number < stdout[k].number

LEMMA AppendKeepsOrder ==
  ASSUME NEW s \in Seq(Nat), NEW n \in Nat, Increasing(s), UpTo(s, n)
  PROVE  /\ Append(s, n + 1) \in Seq(Nat) /\ Len(Append(s, n + 1)) = Len(s) + 1
         /\ Increasing(Append(s, n + 1)) /\ UpTo(Append(s, n + 1), n + 1)
<1>1. \A k \in DOMAIN s : s[k] \in Nat
  OBVIOUS
<1>. QED
  BY <1>1 DEF Increasing, UpTo

LEMMA PrefixKeepsOrder ==
  ASSUME NEW s \in Seq(Nat), NEW t \in Seq(Nat), NEW n, Increasing(s \o t), UpTo(s \o t, n)
  PROVE  Increasing(s) /\ UpTo(s, n)
<1>1. \A k \in DOMAIN s : k \in DOMAIN (s \o t) /\ (s \o t)[k] = s[k]
  OBVIOUS
<1>. QED
  BY <1>1 DEF Increasing, UpTo

LEMMA HandOver ==
  ASSUME NEW s \in Seq(Nat), NEW t \in Seq(Nat), t # <<>>
  PROVE  Append(s, Head(t)) \o Tail(t) = s \o t
  OBVIOUS

LEMMA OldestLeaves ==
  ASSUME NEW d \in Nat, NEW e \in Seq(Nat), Len(e) = EarlyCap,
         \A k \in DOMAIN e : e[k] = d + k
  PROVE  Append(Tail(e), d + EarlyCap + 1) = [k \in 1..EarlyCap |-> d + 1 + k]
<1>. DEFINE t == Tail(e)
            g == Append(t, d + EarlyCap + 1)
<1>0. e # <<>> /\ EarlyCap \in Nat \ {0} /\ \A k \in 1..EarlyCap : e[k] = d + k
  BY CapsPositive
<1>1. t \in Seq(Nat) /\ Len(t) = EarlyCap - 1 /\ \A k \in 1..(EarlyCap - 1) : t[k] = d + (k + 1)
  <2>1. t \in Seq(Nat) /\ Len(t) = EarlyCap - 1 /\ \A k \in 1..(EarlyCap - 1) : t[k] = e[k + 1]
    BY <1>0
  <2>2. \A k \in 1..(EarlyCap - 1) : k + 1 \in 1..EarlyCap
    BY <1>0
  <2>. QED
    BY <1>0, <2>1, <2>2
<1>. HIDE DEF t
<1>2. /\ DOMAIN g = 1..EarlyCap /\ \A k \in 1..(EarlyCap - 1) : g[k] = t[k]
      /\ g[EarlyCap] = d + EarlyCap + 1 /\ g = [k \in DOMAIN g |-> g[k]]
  BY <1>0, <1>1
<1>. HIDE DEF g
<1>3. \A k \in 1..EarlyCap : g[k] = d + 1 + k
  <2>1. \A k \in 1..EarlyCap : k \in 1..(EarlyCap - 1) \/ k = EarlyCap
    BY <1>0
  <2>2. \A k \in 1..(EarlyCap - 1) : d + (k + 1) = d + 1 + k
    BY <1>0
  <2>3. d + EarlyCap + 1 = d + 1 + EarlyCap
    BY <1>0
  <2>. QED
    BY <1>1, <1>2, <2>1, <2>2, <2>3
<1>4. g = [k \in 1..EarlyCap |-> d + 1 + k]
  BY <1>2, <1>3
<1>. QED
  BY <1>4 DEF g, t

\* What is lost of r numbers, what the buffer holds of them, and one more.
Lost(r, d) == (r > EarlyCap => d = r - EarlyCap) /\ (r <= EarlyCap => d = 0)
HoldsLast(e, r, d) == Len(e) = r - d /\ \A k \in DOMAIN e : e[k] = d + k
Pushed(e, n, f) ==
  /\ Len(e) < EarlyCap => f = Append(e, n)
  /\ ~(Len(e) < EarlyCap) => f = Append(Tail(e), n)

\* The early buffer holds the last of the numbers routed so far.
LEMMA EarlyGrows ==
  ASSUME NEW r \in Nat, NEW d \in Nat, NEW e \in Seq(Nat), NEW c, NEW f,
         Lost(r, d), HoldsLast(e, r, d), Lost(r + 1, c), Pushed(e, r + 1, f)
  PROVE  f = [k \in 1..(r + 1 - c) |-> c + k] /\ Len(f) <= EarlyCap
<1>0. Lost(r, d) /\ HoldsLast(e, r, d) /\ Lost(r + 1, c) /\ Pushed(e, r + 1, f)
  OBVIOUS
<1>1. r - d \in Nat /\ EarlyCap \in Nat \ {0} /\ Len(e) = r - d
  BY <1>0, CapsPositive DEF Lost, HoldsLast
<1>2. CASE Len(e) < EarlyCap
  <2>1. r < EarlyCap /\ d = 0 /\ c = 0 /\ r + 1 - c = r + 1
    BY <1>0, <1>1, <1>2 DEF Lost
  <2>2. f = Append(e, r + 1) /\ Len(f) <= EarlyCap
    BY <1>0, <1>1, <1>2, <2>1 DEF Pushed
  <2>3. Append(e, r + 1) = [k \in 1..(r + 1) |-> 0 + k]
    BY <1>0, <1>1, <2>1 DEF HoldsLast
  <2>. QED
    BY <2>1, <2>2, <2>3
<1>3. CASE ~ Len(e) < EarlyCap
  <2>1. /\ d + EarlyCap = r /\ Len(e) = EarlyCap /\ c = d + 1 /\ r + 1 - c = EarlyCap
    BY <1>0, <1>1, <1>3 DEF Lost
  <2>2. f = Append(Tail(e), r + 1) /\ d + EarlyCap + 1 = r + 1
    BY <1>0, <1>3, <2>1 DEF Pushed
  <2>3. f = [k \in 1..EarlyCap |-> d + 1 + k]
    BY <1>0, <2>1, <2>2, OldestLeaves DEF HoldsLast
  <2>4. Len(f) <= EarlyCap
    BY <1>1, <2>1, <2>2
  <2>. QED
    BY <2>1, <2>3, <2>4
<1>. QED
  BY <1>2, <1>3

\* What the child's output holds of notifications, after each kind of step.
LEMMA BehindUnmoved ==
  ASSUME UNCHANGED stdout
  PROVE  Behind' = Behind /\ (InOrder => InOrder')
  BY DEF Behind, InOrder, Noted

LEMMA BehindAnswered ==
  ASSUME ChildTypeOK, NEW a, a.id # Note, stdout' = Append(stdout, a)
  PROVE  Behind' = Behind /\ (InOrder => InOrder')
<1>1. stdout \in Seq(Answer \cup [id : {Note}, number : Nat])
  BY DEF ChildTypeOK
<1>2. Noted' = Noted /\ \A k \in Noted : stdout'[k] = stdout[k]
  BY <1>1 DEF Noted
<1>. QED
  BY <1>2 DEF Behind, InOrder

LEMMA BehindPrinted ==
  ASSUME ChildTypeOK, NEW n \in Nat, stdout' = Append(stdout, Notice(n)),
         \A m \in Behind : m < n
  PROVE  Behind' = Behind \cup {n} /\ (InOrder => InOrder')
<1>1. stdout \in Seq(Answer \cup [id : {Note}, number : Nat])
  BY DEF ChildTypeOK
<1>2. /\ Noted' = Noted \cup {Len(stdout) + 1} /\ \A k \in Noted : stdout'[k] = stdout[k] /\ k < Len(stdout) + 1
      /\ stdout'[Len(stdout) + 1].number = n
      /\ Noted \subseteq Nat /\ Len(stdout) \in Nat
  BY <1>1 DEF Noted, Notice
<1>3. \A m : m \in Behind' <=> m \in Behind \/ m = n
  BY <1>2 DEF Behind
<1>4. ASSUME InOrder PROVE InOrder'
  <2>1. \A k \in Noted : stdout[k].number \in Behind
    BY DEF Behind
  <2>. SUFFICES ASSUME NEW j \in Noted', NEW k \in Noted', j < k
                PROVE  stdout'[j].number < stdout'[k].number
    BY DEF InOrder
  <2>2. j \in Noted
    BY <1>2
  <2>3. CASE k \in Noted
    BY <1>2, <1>4, <2>2, <2>3 DEF InOrder
  <2>4. CASE k = Len(stdout) + 1
    BY <1>2, <2>1, <2>2, <2>4
  <2>. QED
    BY <1>2, <2>3, <2>4
<1>. QED
  BY <1>3, <1>4

LEMMA BehindRead ==
  ASSUME ChildTypeOK, stdout # <<>>, stdout' = Tail(stdout), InOrder
  PROVE  /\ InOrder'
         /\ Head(stdout).id # Note => Behind' = Behind
         /\ Head(stdout).id = Note =>
              /\ Head(stdout).number \in Behind
              /\ Behind' = Behind \ {Head(stdout).number}
              /\ \A n \in Behind' : Head(stdout).number < n
<1>1. stdout \in Seq(Answer \cup [id : {Note}, number : Nat]) /\ stdout # <<>>
  BY DEF ChildTypeOK
<1>2. PICK t : t = Tail(stdout)
  OBVIOUS
<1>3. /\ Head(stdout) = stdout[1] /\ 1 \in DOMAIN stdout
      /\ \A k \in DOMAIN t : t[k] = stdout[k + 1] /\ k + 1 \in DOMAIN stdout /\ k \in Nat /\ 1 < k + 1
      /\ \A k \in DOMAIN stdout : k \in Nat /\ (k # 1 => k - 1 \in DOMAIN t /\ t[k - 1] = stdout[k] /\ 1 < k)
  BY <1>1, <1>2
<1>4. InOrder'
  BY <1>2, <1>3 DEF InOrder, Noted
<1>5. Behind' = {stdout[k].number : k \in Noted \ {1}}
  <2>1. \A k \in Noted \ {1} : k - 1 \in DOMAIN t /\ t[k - 1] = stdout[k] /\ t[k - 1].id = Note
    BY <1>3 DEF Noted
  <2>2. \A k \in DOMAIN t : t[k].id = Note => k + 1 \in Noted \ {1} /\ stdout[k + 1] = t[k]
    BY <1>3 DEF Noted
  <2>3. Behind' = {t[k].number : k \in {j \in DOMAIN t : t[j].id = Note}}
    BY <1>2 DEF Behind, Noted
  <2>4. \A n : n \in Behind' <=> \E k \in DOMAIN t : t[k].id = Note /\ n = t[k].number
    BY <2>3
  <2>5. \A n : n \in Behind' <=> \E k \in Noted \ {1} : n = stdout[k].number
    BY <2>1, <2>2, <2>4
  <2>. QED
    BY <2>5
<1>6. Head(stdout).id # Note => Behind' = Behind
  <2>1. Head(stdout).id # Note => Noted \ {1} = Noted
    BY <1>3 DEF Noted
  <2>. QED
    BY <1>5, <2>1 DEF Behind
<1>7. ASSUME Head(stdout).id = Note
      PROVE  /\ Head(stdout).number \in Behind
             /\ Behind' = Behind \ {Head(stdout).number}
             /\ \A n \in Behind' : Head(stdout).number < n
  <2>1. 1 \in Noted /\ Head(stdout).number = stdout[1].number /\ stdout[1].number \in Nat
    BY <1>1, <1>3, <1>7, HeadIsMessage DEF Noted
  <2>2. \A k \in Noted \ {1} : stdout[1].number < stdout[k].number /\ stdout[k].number \in Nat
    <3>1. \A k \in Noted : stdout[k].number \in Nat
      BY <1>1, NoteHasNoId DEF Noted, Answer
    <3>. QED
      BY <1>3, <2>1, <3>1 DEF InOrder, Noted
  <2>3. \A n : n \in Behind <=> n = stdout[1].number \/ n \in Behind'
    BY <1>5, <2>1 DEF Behind
  <2>4. \A n \in Behind' : stdout[1].number < n /\ n # stdout[1].number
    BY <1>5, <2>1, <2>2
  <2>. QED
    BY <2>1, <2>3, <2>4
<1>. QED
  BY <1>4, <1>6, <1>7

\* The relay has read r of the notifications that were printed.
RoutedTo(r) ==
  /\ Behind = (r + 1)..printed
  /\ UpTo(Seen, r)
  /\ stream # "dropped" => Len(Seen) + Dropped + backpressure = r

EarlyFits ==
  /\ ~initDone => early = [k \in 1..(routedEarly - Dropped) |-> Dropped + k]
  /\ initDone => early = <<>>

LEMMA OrderParts ==
  NotificationsInOrder <=>
    /\ Increasing(Seen) /\ InOrder /\ EarlyFits
    /\ \E r \in 0..printed : RoutedTo(r)
  BY DEF NotificationsInOrder, Increasing, InOrder, EarlyFits, RoutedTo, UpTo

LEMMA OrderPartsNext ==
  ASSUME Increasing(Seen)', InOrder', EarlyFits', \E r \in 0..printed' : RoutedTo(r)'
  PROVE  NotificationsInOrder'
  BY DEF NotificationsInOrder, Increasing, InOrder, EarlyFits, RoutedTo, UpTo

LEMMA NoticesUnmoved ==
  ASSUME NotificationsInOrder, NoticesFit, UNCHANGED noticeVars,
         Behind' = Behind, InOrder => InOrder'
  PROVE  NotificationsInOrder' /\ NoticesFit'
<1>1. Seen' = Seen /\ Dropped' = Dropped
  BY DEF noticeVars, Seen, Dropped
<1>2. Increasing(Seen) /\ InOrder /\ EarlyFits
  BY OrderParts
<1>3. PICK r \in 0..printed : RoutedTo(r)
  BY OrderParts
<1>4. RoutedTo(r)' /\ r \in 0..printed'
  BY <1>1, <1>3 DEF RoutedTo, UpTo, noticeVars
<1>5. Increasing(Seen)' /\ InOrder' /\ EarlyFits'
  BY <1>1, <1>2 DEF Increasing, EarlyFits, noticeVars
<1>6. NoticesFit'
  BY DEF NoticesFit, noticeVars
<1>. QED
  BY <1>4, <1>5, <1>6, OrderPartsNext

LEMMA PrintStep ==
  ASSUME RelayTypeOK, NotificationsInOrder, NoticesFit, ChildNotifies
  PROVE  NotificationsInOrder' /\ NoticesFit'
<1>1. PICK r \in 0..printed : RoutedTo(r)
  BY OrderParts
<1>2. /\ printed \in Nat /\ printed' = printed + 1
      /\ stdout' = Append(stdout, Notice(printed + 1))
      /\ UNCHANGED <<initDone, early, notices, backpressure, stream, received, routedEarly>>
  BY DEF ChildNotifies, RelayTypeOK, NoticesTypeOK
<1>3. Behind = (r + 1)..printed /\ \A m \in Behind : m < printed + 1
  BY <1>1, <1>2 DEF RoutedTo
<1>4. Behind' = Behind \cup {printed + 1} /\ InOrder'
  BY <1>2, <1>3, BehindPrinted, OrderParts DEF RelayTypeOK
<1>5. Seen' = Seen /\ Dropped' = Dropped
  BY <1>2 DEF Seen, Dropped
<1>6. \A n \in 0..printed : (n + 1)..(printed + 1) = ((n + 1)..printed) \cup {printed + 1}
  BY <1>2
<1>7. RoutedTo(r)' /\ r \in 0..printed'
  BY <1>1, <1>2, <1>4, <1>5, <1>6 DEF RoutedTo, UpTo
<1>8. Increasing(Seen)' /\ EarlyFits'
  BY <1>2, <1>5, OrderParts DEF Increasing, EarlyFits
<1>9. NoticesFit'
  BY <1>2, <1>4, <1>6 DEF NoticesFit, RelayTypeOK, NoticesTypeOK
<1>. QED
  BY <1>4, <1>7, <1>8, <1>9, OrderPartsNext

\* Before the answer to the initialize what was seen is the early buffer, after
\* it what the channel holds and the stream has written.
LEMMA SeenIs ==
  ASSUME RelayTypeOK, NotificationsInOrder, NoticesFit
  PROVE  IF initDone THEN Seen = received \o notices ELSE Seen = early
<1>1. received \in Seq(Nat) /\ notices \in Seq(Nat) /\ early \in Seq(Nat)
  BY DEF RelayTypeOK, NoticesTypeOK
<1>2. CASE initDone
  <2>1. early = <<>>
    BY <1>2 DEF NotificationsInOrder
  <2>. QED
    BY <1>1, <1>2, <2>1 DEF Seen
<1>3. CASE ~initDone
  <2>1. received = <<>> /\ notices = <<>>
    BY <1>3 DEF NoticesFit
  <2>. QED
    BY <1>1, <1>3, <2>1 DEF Seen
<1>. QED
  BY <1>2, <1>3

LEMMA FlushStep ==
  ASSUME RelayTypeOK, NotificationsInOrder, NoticesFit, RouteResponse
  PROVE  NotificationsInOrder' /\ NoticesFit'
<1>1. /\ stdout # <<>> /\ Head(stdout).id # Note /\ stdout' = Tail(stdout)
      /\ UNCHANGED <<printed, backpressure, stream, received, routedEarly>>
      /\ \/ UNCHANGED <<initDone, early, notices>>
         \/ /\ ~initDone /\ initDone'
            /\ early' = <<>>
            /\ notices' = IF stream = "dropped" THEN notices ELSE notices \o early
  BY DEF RouteResponse, MarkInitDone, Flushed
<1>2. Behind' = Behind /\ InOrder'
  BY <1>1, BehindRead, OrderParts DEF RelayTypeOK
<1>3. CASE UNCHANGED <<initDone, early, notices>>
  BY <1>1, <1>2, <1>3, NoticesUnmoved DEF noticeVars
<1>4. CASE /\ ~initDone /\ initDone' /\ early' = <<>>
           /\ notices' = IF stream = "dropped" THEN notices ELSE notices \o early
  <2>1. /\ received = <<>> /\ notices = <<>> /\ early \in Seq(Nat) /\ Seen = early
        /\ Len(early) <= EarlyCap
    BY <1>4, SeenIs DEF NoticesFit, RelayTypeOK, NoticesTypeOK
  <2>2. notices' = IF stream = "dropped" THEN <<>> ELSE early
    BY <1>4, <2>1
  <2>3. Seen' = IF stream = "dropped" THEN <<>> ELSE early
    BY <1>1, <1>4, <2>1, <2>2 DEF Seen
  <2>4. Dropped' = Dropped
    BY <1>1 DEF Dropped
  <2>5. PICK r \in 0..printed : RoutedTo(r)
    BY OrderParts
  <2>6. RoutedTo(r)' /\ r \in 0..printed'
    BY <1>1, <1>2, <2>1, <2>3, <2>4, <2>5 DEF RoutedTo, UpTo
  <2>7. Increasing(Seen)' /\ EarlyFits'
    BY <1>4, <2>1, <2>3, OrderParts DEF Increasing, EarlyFits
  <2>8. NoticesFit'
    <3>1. Len(<<>>) = 0 /\ Len(early) \in Nat /\ EarlyCap \in Nat /\ NoticeCap \in Nat
      BY <2>1, CapsPositive
    <3>. QED
      BY <1>4, <2>1, <2>2, <3>1, FlushFits DEF NoticesFit
  <2>. QED
    BY <1>2, <2>6, <2>7, <2>8, OrderPartsNext
<1>. QED
  BY <1>1, <1>3, <1>4

LEMMA RouteStep ==
  ASSUME RelayTypeOK, NotificationsInOrder, NoticesFit, RouteNotification
  PROVE  NotificationsInOrder' /\ NoticesFit'
<1>1. PICK n : n = Head(stdout).number
  OBVIOUS
<1>2. /\ stdout # <<>> /\ Head(stdout).id = Note /\ stdout' = Tail(stdout)
      /\ UNCHANGED <<printed, initDone, stream, received>>
      /\ \/ /\ ~initDone
            /\ early' = Append(IF Len(early) < EarlyCap THEN early ELSE Tail(early), n)
            /\ routedEarly' = routedEarly + 1 /\ UNCHANGED <<notices, backpressure>>
         \/ /\ initDone /\ stream # "dropped" /\ Len(notices) < NoticeCap
            /\ notices' = Append(notices, n) /\ UNCHANGED <<early, backpressure, routedEarly>>
         \/ /\ initDone /\ stream # "dropped" /\ Len(notices) = NoticeCap
            /\ backpressure' = backpressure + 1 /\ UNCHANGED <<early, notices, routedEarly>>
         \/ /\ initDone /\ stream = "dropped"
            /\ UNCHANGED <<early, notices, backpressure, routedEarly>>
  BY <1>1 DEF RouteNotification
<1>3. PICK r \in 0..printed : RoutedTo(r)
  BY OrderParts
<1>4. r \in Nat /\ printed \in Nat /\ Behind = (r + 1)..printed
  BY <1>3 DEF RoutedTo, RelayTypeOK, NoticesTypeOK
<1>5. InOrder' /\ n \in Behind /\ Behind' = Behind \ {n} /\ \A m \in Behind' : n < m
  BY <1>1, <1>2, BehindRead, OrderParts DEF RelayTypeOK
<1>6. n = r + 1 /\ r + 1 <= printed /\ Behind' = (r + 2)..printed
  <2>1. n \in (r + 1)..printed /\ n \in Nat
    BY <1>4, <1>5
  <2>2. r + 1 \in Behind /\ ~(n < r + 1)
    BY <1>4, <2>1
  <2>3. n = r + 1
    BY <1>4, <1>5, <2>1, <2>2
  <2>. QED
    BY <1>4, <1>5, <2>1, <2>3
<1>7. r + 1 \in 0..printed' /\ Behind' = ((r + 1) + 1)..printed'
  BY <1>2, <1>4, <1>6
<1>8. received \in Seq(Nat) /\ notices \in Seq(Nat) /\ early \in Seq(Nat)
  BY DEF RelayTypeOK, NoticesTypeOK
<1>9. Increasing(Seen) /\ UpTo(Seen, r) /\ EarlyFits
      /\ (stream # "dropped" => Len(Seen) + Dropped + backpressure = r)
  BY <1>3, OrderParts DEF RoutedTo
<1>10. SUFFICES /\ Increasing(Seen)' /\ EarlyFits' /\ UpTo(Seen, r + 1)'
                /\ (stream # "dropped" => Len(Seen) + Dropped + backpressure = r + 1)'
                /\ NoticesFit'
  BY <1>5, <1>7, OrderPartsNext DEF RoutedTo
<1>11. CASE ~initDone
  <2>1. /\ received = <<>> /\ notices = <<>> /\ backpressure = 0 /\ Seen = early
        /\ routedEarly <= printed /\ Behind = (routedEarly + 1)..printed /\ routedEarly \in Nat
    BY <1>11, SeenIs DEF NoticesFit, RelayTypeOK, NoticesTypeOK
  <2>2. routedEarly = r
    BY <1>4, <1>6, <2>1
  <2>3. Dropped \in Nat /\ Dropped = IF r > EarlyCap THEN r - EarlyCap ELSE 0
    BY <1>4, <2>2, CapsPositive DEF Dropped
  <2>4. early = [k \in 1..(r - Dropped) |-> Dropped + k]
    BY <1>9, <1>11, <2>2 DEF EarlyFits
  <2>5. Dropped' = IF r + 1 > EarlyCap THEN (r + 1) - EarlyCap ELSE 0
    BY <1>2, <1>11, <2>2 DEF Dropped
  <2>6. PICK d : d = Dropped
    OBVIOUS
  <2>7. PICK c : c = IF r + 1 > EarlyCap THEN (r + 1) - EarlyCap ELSE 0
    OBVIOUS
  <2>8. PICK f : f = Append(IF Len(early) < EarlyCap THEN early ELSE Tail(early), r + 1)
    OBVIOUS
  <2>9. Dropped' = c /\ c \in Nat /\ r + 1 - c \in Nat /\ early' = f
    <3>1. early' = Append(IF Len(early) < EarlyCap THEN early ELSE Tail(early), r + 1)
      BY <1>2, <1>6, <1>11, Zenon
    <3>2. c \in Nat /\ r + 1 - c \in Nat
      BY <1>4, <2>7, CapsPositive
    <3>. QED
      BY <2>5, <2>7, <2>8, <3>1, <3>2, Zenon
  <2>10. f = [k \in 1..(r + 1 - c) |-> c + k] /\ Len(f) <= EarlyCap
    <3>1. PICK e \in Seq(Nat) : e = early
      BY <1>8
    <3>2. r \in Nat /\ d \in Nat /\ Lost(r, d)
      BY <1>4, <2>3, <2>6, CapsPositive DEF Lost
    <3>3. HoldsLast(e, r, d)
      BY <1>4, <2>4, <2>6, <3>1, <3>2, CapsPositive DEF HoldsLast, Lost
    <3>4. Lost(r + 1, c)
      BY <1>4, <2>7, CapsPositive DEF Lost
    <3>5. Pushed(e, r + 1, f)
      BY <2>8, <3>1, Zenon DEF Pushed
    <3>. QED
      BY <3>1, <3>2, <3>3, <3>4, <3>5, EarlyGrows, Zenon
  <2>11. f \in Seq(Nat) /\ Increasing(f) /\ UpTo(f, r + 1) /\ Len(f) = r + 1 - c
    <3>1. PICK l \in Nat : l = r + 1 - c
      BY <2>9
    <3>2. f = [k \in 1..l |-> c + k]
      BY <2>10, <3>1
    <3>3. \A k \in 1..l : c + k <= r + 1 /\ c + k \in Nat
      BY <1>4, <2>9, <3>1
    <3>. QED
      BY <2>9, <3>1, <3>2, <3>3 DEF Increasing, UpTo
  <2>12. Seen' = f
    <3>1. received' = <<>> /\ notices' = <<>>
      BY <1>2, <1>11, <2>1
    <3>2. Seen' = <<>> \o <<>> \o f
      BY <2>9, <3>1 DEF Seen
    <3>. QED
      BY <2>11, <3>2
  <2>13. Increasing(Seen)' /\ UpTo(Seen, r + 1)'
    BY <2>11, <2>12 DEF Increasing, UpTo
  <2>14. EarlyFits'
    BY <1>2, <1>11, <2>2, <2>9, <2>10 DEF EarlyFits
  <2>15. NoticesFit'
    <3>1. notices' = <<>> /\ received' = <<>> /\ backpressure' = 0 /\ routedEarly' = r + 1
      BY <1>2, <1>11, <2>1, <2>2
    <3>2. Len(notices') <= NoticeCap
      BY <3>1, CapsPositive
    <3>. QED
      BY <1>2, <1>4, <1>6, <1>7, <2>9, <2>10, <3>1, <3>2 DEF NoticesFit
  <2>16. backpressure' = 0 /\ Len(Seen') + Dropped' + backpressure' = r + 1
    BY <1>2, <1>4, <1>11, <2>1, <2>9, <2>11, <2>12
  <2>. QED
    BY <2>13, <2>14, <2>15, <2>16
<1>12. CASE initDone
  <2>1. early = <<>> /\ Seen = received \o notices /\ Dropped' = Dropped
        /\ early' = <<>> /\ initDone' /\ EarlyFits'
    BY <1>2, <1>9, <1>12, SeenIs DEF EarlyFits, Dropped
  <2>2. Dropped \in Nat /\ Len(Seen) \in Nat /\ Seen \in Seq(Nat) /\ backpressure \in Nat
    BY <1>8, <2>1, CapsPositive DEF Dropped, RelayTypeOK, NoticesTypeOK
  <2>3. CASE /\ stream # "dropped" /\ Len(notices) < NoticeCap
             /\ notices' = Append(notices, n) /\ UNCHANGED <<early, backpressure, routedEarly>>
    <3>1. Seen' = Append(Seen, r + 1)
      <4>1. Seen' = received \o Append(notices, r + 1) \o <<>>
        BY <1>2, <1>6, <2>1, <2>3 DEF Seen
      <4>. QED
        BY <1>4, <1>8, <2>1, <4>1
    <3>2. /\ Increasing(Seen') /\ UpTo(Seen', r + 1) /\ Len(Seen') = Len(Seen) + 1
      BY <1>4, <1>9, <2>2, <3>1, AppendKeepsOrder
    <3>3. Increasing(Seen)' /\ UpTo(Seen, r + 1)'
      BY <3>2 DEF Increasing, UpTo
    <3>4. NoticesFit'
      <4>1. Len(notices') <= NoticeCap
        BY <1>8, <2>3, <1>4, <1>6, CapsPositive
      <4>. QED
        BY <2>1, <2>3, <4>1 DEF NoticesFit
    <3>5. Len(Seen') + Dropped' + backpressure' = r + 1
      BY <1>4, <1>9, <2>1, <2>2, <2>3, <3>2
    <3>. QED
      BY <2>1, <3>3, <3>4, <3>5
  <2>4. CASE /\ stream # "dropped" => backpressure' = backpressure + 1
             /\ UNCHANGED <<early, notices, routedEarly>>
    <3>1. Seen' = Seen
      BY <1>2, <2>4 DEF Seen
    <3>2. \A x \in Nat : x <= r => x <= r + 1
      BY <1>4
    <3>3. \A k \in DOMAIN Seen : Seen[k] \in Nat
      BY <2>2
    <3>4. Increasing(Seen)' /\ UpTo(Seen, r + 1)'
      BY <1>9, <3>1, <3>2, <3>3 DEF Increasing, UpTo
    <3>5. NoticesFit'
      BY <2>1, <2>4 DEF NoticesFit
    <3>6. stream # "dropped" => Len(Seen) + Dropped + (backpressure + 1) = r + 1
      BY <1>4, <1>9, <2>2
    <3>. QED
      BY <1>2, <2>1, <2>4, <3>1, <3>4, <3>5, <3>6
  <2>. QED
    BY <1>2, <1>12, <2>3, <2>4
<1>. QED
  BY <1>11, <1>12

LEMMA WriteNoticeStep ==
  ASSUME RelayTypeOK, NotificationsInOrder, NoticesFit, WriteNotice
  PROVE  NotificationsInOrder' /\ NoticesFit'
<1>1. /\ notices # <<>> /\ received' = Append(received, Head(notices)) /\ notices' = Tail(notices)
      /\ UNCHANGED <<stdout, printed, initDone, early, backpressure, stream, routedEarly>>
  BY DEF WriteNotice
<1>2. received \in Seq(Nat) /\ notices \in Seq(Nat) /\ initDone
  BY <1>1 DEF NoticesFit, RelayTypeOK, NoticesTypeOK
<1>3. received' \o notices' = received \o notices
  BY <1>1, <1>2, HandOver
<1>4. Seen' = Seen /\ Dropped' = Dropped
  BY <1>1, <1>3 DEF Seen, Dropped
<1>5. Behind' = Behind /\ InOrder'
  BY <1>1, BehindUnmoved, OrderParts
<1>6. PICK r \in 0..printed : RoutedTo(r)
  BY OrderParts
<1>7. RoutedTo(r)' /\ r \in 0..printed'
  BY <1>1, <1>4, <1>5, <1>6 DEF RoutedTo, UpTo
<1>8. Increasing(Seen)' /\ EarlyFits'
  BY <1>1, <1>4, OrderParts DEF Increasing, EarlyFits
<1>9. NoticesFit'
  <2>1. Len(Tail(notices)) <= NoticeCap
    BY <1>1, <1>2, CapsPositive DEF NoticesFit
  <2>. QED
    BY <1>1, <1>2, <2>1 DEF NoticesFit
<1>. QED
  BY <1>5, <1>7, <1>8, <1>9, OrderPartsNext

LEMMA StreamEndsStep ==
  ASSUME RelayTypeOK, NotificationsInOrder, NoticesFit, StreamEnds
  PROVE  NotificationsInOrder' /\ NoticesFit'
<1>1. /\ stream' = "dropped" /\ notices' = <<>>
      /\ UNCHANGED <<stdout, printed, initDone, early, backpressure, received, routedEarly>>
  BY DEF StreamEnds
<1>2. received \in Seq(Nat) /\ notices \in Seq(Nat) /\ early \in Seq(Nat)
  BY DEF RelayTypeOK, NoticesTypeOK
<1>3. Dropped' = Dropped /\ Behind' = Behind /\ InOrder'
  BY <1>1, BehindUnmoved, OrderParts DEF Dropped
<1>4. PICK r \in 0..printed : RoutedTo(r)
  BY OrderParts
<1>5. Increasing(Seen) /\ UpTo(Seen, r) /\ Behind = (r + 1)..printed
  BY <1>4, OrderParts DEF RoutedTo
<1>6. Increasing(Seen') /\ UpTo(Seen', r)
  <2>1. CASE initDone
    <3>1. Seen = received \o notices /\ early = <<>>
      BY <2>1, SeenIs, OrderParts DEF EarlyFits
    <3>2. Seen' = received
      BY <1>1, <1>2, <3>1 DEF Seen
    <3>. QED
      BY <1>2, <1>5, <3>1, <3>2, PrefixKeepsOrder
  <2>2. CASE ~initDone
    <3>1. notices = <<>>
      BY <2>2 DEF NoticesFit
    <3>. QED
      BY <1>1, <1>5, <3>1 DEF Seen
  <2>. QED
    BY <2>1, <2>2
<1>7. RoutedTo(r)' /\ r \in 0..printed'
  BY <1>1, <1>3, <1>4, <1>5, <1>6 DEF RoutedTo, UpTo
<1>8. Increasing(Seen)' /\ EarlyFits'
  BY <1>1, <1>3, <1>6, OrderParts DEF Increasing, EarlyFits
<1>9. NoticesFit'
  <2>1. Len(<<>>) <= NoticeCap
    BY CapsPositive
  <2>. QED
    BY <1>1, <1>3, <2>1 DEF NoticesFit
<1>. QED
  BY <1>3, <1>7, <1>8, <1>9, OrderPartsNext

LEMMA OpenStreamStep ==
  ASSUME RelayTypeOK, NotificationsInOrder, NoticesFit, OpenStream
  PROVE  NotificationsInOrder' /\ NoticesFit'
<1>1. /\ stream # "dropped" /\ stream' = "open"
      /\ UNCHANGED <<stdout, printed, initDone, early, notices, backpressure, received, routedEarly>>
  BY DEF OpenStream
<1>2. Seen' = Seen /\ Dropped' = Dropped
  BY <1>1 DEF Seen, Dropped
<1>3. Behind' = Behind /\ InOrder'
  BY <1>1, BehindUnmoved, OrderParts
<1>4. PICK r \in 0..printed : RoutedTo(r)
  BY OrderParts
<1>5. RoutedTo(r)' /\ r \in 0..printed'
  BY <1>1, <1>2, <1>3, <1>4 DEF RoutedTo, UpTo
<1>6. Increasing(Seen)' /\ EarlyFits' /\ NoticesFit'
  BY <1>1, <1>2, <1>3, OrderParts DEF Increasing, EarlyFits, NoticesFit
<1>. QED
  BY <1>3, <1>5, <1>6, OrderPartsNext

LEMMA NoticesStep ==
  ASSUME RelayTypeOK, NotificationsInOrder, NoticesFit, [RelayNext]_rvars
  PROVE  NotificationsInOrder' /\ NoticesFit'
<1>1. CASE UNCHANGED <<stdout, noticeVars>>
  BY <1>1, BehindUnmoved, NoticesUnmoved
<1>2. ASSUME NEW p \in Posts, StartPost(p) \/ Handler(p) \/ Deadline(p)
      PROVE  UNCHANGED <<stdout, noticeVars>>
  BY <1>2 DEF StartPost, Handler, Deadline, WriteMessage, RegisterPending, WritesDone,
              Collect, Disconnected
<1>3. CASE ChildDies \/ CloseSession \/ RelayReadError \/ FailPending \/ UNCHANGED rvars
  <2>. UNCHANGED <<stdout, noticeVars>>
    BY <1>3 DEF ChildDies, CloseSession, RelayReadError, FailPending, rvars
  <2>. QED
    BY <1>1
<1>4. ASSUME NEW m \in Request, ChildAnswers(m)
      PROVE  NotificationsInOrder' /\ NoticesFit'
  <2>1. PICK a : a.id # Note /\ stdout' = Append(stdout, a)
    BY <1>4, NoteHasNoId DEF ChildAnswers, Request
  <2>2. UNCHANGED noticeVars
    BY <1>4 DEF ChildAnswers
  <2>. QED
    BY <2>1, <2>2, BehindAnswered, NoticesUnmoved DEF RelayTypeOK
<1>. QED
  BY <1>1, <1>2, <1>3, <1>4, PrintStep, FlushStep, RouteStep, WriteNoticeStep,
     StreamEndsStep, OpenStreamStep DEF RelayNext, Relay

LEMMA NoticesInit ==
  ASSUME RelayInit
  PROVE  NotificationsInOrder /\ NoticesFit
<1>1. /\ stdout = <<>> /\ printed = 0 /\ ~initDone /\ early = <<>> /\ notices = <<>>
      /\ backpressure = 0 /\ stream = "unclaimed" /\ received = <<>> /\ routedEarly = 0
  BY DEF RelayInit
<1>2. Noted = {} /\ Behind = {} /\ 1..0 = {}
  BY <1>1 DEF Noted, Behind
<1>3. Seen = <<>> /\ Len(<<>>) = 0 /\ DOMAIN <<>> = {}
  BY <1>1 DEF Seen
<1>4. Dropped = 0
  BY <1>1, CapsPositive DEF Dropped
<1>5. RoutedTo(0) /\ 0 \in 0..printed
  BY <1>1, <1>2, <1>3, <1>4 DEF RoutedTo, UpTo
<1>6. Increasing(Seen) /\ InOrder
  BY <1>2, <1>3 DEF Increasing, InOrder
<1>7. EarlyFits
  <2>1. <<>> = [k \in 1..(0 - 0) |-> 0 + k]
    OBVIOUS
  <2>. QED
    BY <1>1, <1>4, <2>1 DEF EarlyFits
<1>8. NoticesFit
  BY <1>1, <1>2, <1>3, CapsPositive DEF NoticesFit
<1>. QED
  BY <1>5, <1>6, <1>7, <1>8, OrderParts

\* The order of the notifications is inductive, with what the early buffer
\* and the channel may hold: route_notification(), mark_init_done() and the
\* GET stream hand them on from one queue to the next.
THEOREM NoticesInvariant == RelaySpec => []NoticesIInv
<1>1. RelayInit => NotificationsInOrder /\ NoticesFit
  BY NoticesInit
<1>2. /\ RoutingIInv /\ NotificationsInOrder /\ NoticesFit /\ [RelayNext]_rvars
      => (NotificationsInOrder /\ NoticesFit)'
  BY NoticesStep DEF RoutingIInv
<1>3. RoutingIInv => RelayTypeOK
  BY DEF RoutingIInv
<1>. QED
  BY <1>1, <1>2, <1>3, RoutingInvariant, PTL DEF RelaySpec, NoticesIInv

\* The GET stream writes the notifications as the child printed them, and what
\* is missing was counted or overflowed the early buffer.
THEOREM NotificationsKeepOrder == RelaySpec => []NotificationsInOrder
  BY NoticesInvariant, PTL DEF NoticesIInv
=============================================================================
