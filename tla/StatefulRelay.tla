---------------------------- MODULE StatefulRelay ----------------------------
(***************************************************************************)
(* One stateful session: the POST handlers that write requests to the      *)
(* child and wait, the child, the relay thread that routes what the child  *)
(* prints, and the GET stream that gets the notifications (SessionData,    *)
(* relay_loop() and forward_and_respond() of                               *)
(* src/src/gateway/stateful_http.rs).                                      *)
(*                                                                         *)
(* A request is an id and the handler that wrote it; the child answers a   *)
(* request it read with a response of the same id, in any order, or dies.  *)
(* The handler writes first and registers its ids afterwards.  The session *)
(* is made by the POST of the initialize request, and its id is known to   *)
(* the client when that POST is answered.  Notifications, and requests of  *)
(* the server, which go the same way, are numbered as the child prints     *)
(* them.                                                                   *)
(***************************************************************************)
EXTENDS Naturals, Sequences, FiniteSets, SequencesExt, Functions

CONSTANTS
  Posts,       \* POST handlers on this session
  Ids,         \* JSON-RPC ids
  Bodies,      \* what the POSTs may hold: for each, the ids of its requests
               \* and Note if it has notifications too
  Note,        \* a message without an answer
  Opener,      \* the POST of the initialize request
  RespCap,     \* RESPONSE_CHANNEL_CAP
  EarlyCap,    \* INIT_NOTIFICATION_BUFFER_CAP
  NoticeCap,   \* NOTIFICATION_CHANNEL_CAP
  MaxNotices,  \* bound on the notifications the child prints
  Nobody       \* no handler registered for an id

ASSUME BodiesOfPosts ==
  /\ Bodies \subseteq [Posts -> SUBSET (Ids \cup {Note})]
  /\ \A body \in Bodies : \A p \in Posts : IsFiniteSet(body[p])
\* A client uses an id for one request of a session only.
ASSUME IdsUsedOnce ==
  \A body \in Bodies : \A p, q \in Posts : p # q => body[p] \cap body[q] \subseteq {Note}
ASSUME NoteHasNoId == Note \notin Ids
ASSUME OpenerInitializes ==
  Opener \in Posts /\ \A body \in Bodies : \E i \in Ids : body[Opener] = {i}
ASSUME CapsPositive == {RespCap, EarlyCap, NoticeCap} \subseteq Nat \ {0}
ASSUME FlushFits == EarlyCap <= NoticeCap
ASSUME MaxNoticesIsNat == MaxNotices \in Nat
ASSUME NobodyIsNoPost == Nobody \notin Posts

VARIABLES
  bodyOf,       \* each POST's body
  phase,        \* where the handler is
  todo,         \* what it still has to write, register or see answered
  chan,         \* its response channel
  answers,      \* the responses it collected
  ended,        \* how it ended
  pending,      \* SessionData.pending_requests: id -> handler
  inMap,        \* the session is in the session map
  childFailed,  \* SessionData.child_failed
  alive,        \* the child process runs
  inbox,        \* requests the child has read and not answered
  stdout,       \* the child's output, up to the relay thread
  relay,        \* "running", "failing" after the read error, "gone"
  printed,      \* notifications the child printed
  initDone,     \* SessionData.init_done
  early,        \* notification_buffer
  notices,      \* the notification channel
  backpressure, \* metrics.backpressure_events
  stream,       \* the receiver is "unclaimed", "open" on a GET, or "dropped"
  received,     \* what the GET stream wrote
  routedEarly   \* history: notifications routed before init_done

handlerVars == <<bodyOf, phase, todo, chan, answers, ended, pending>>
noticeVars ==
  <<printed, initDone, early, notices, backpressure, stream, received, routedEarly>>
rvars == <<handlerVars, inMap, childFailed, alive, inbox, stdout, relay, noticeVars>>

IdsOf(p) == bodyOf[p] \ {Note}
Request == [id : Ids, from : Posts]
Failure(i) == [id |-> i, from |-> Nobody]     \* error_response(-32603)
Notice(n) == [id |-> Note, number |-> n]
Smaller(a, b) == IF a < b THEN a ELSE b

RelayInit ==
  /\ bodyOf \in Bodies
  /\ phase = [p \in Posts |-> "start"]
  /\ todo = [p \in Posts |-> {}]
  /\ chan = [p \in Posts |-> <<>>]
  /\ answers = [p \in Posts |-> {}]
  /\ ended = [p \in Posts |-> "no"]
  /\ pending = [i \in Ids |-> Nobody]
  /\ inMap = TRUE
  /\ childFailed = FALSE
  /\ alive = TRUE
  /\ inbox = {}
  /\ stdout = <<>>
  /\ relay = "running"
  /\ printed = 0
  /\ initDone = FALSE
  /\ early = <<>>
  /\ notices = <<>>
  /\ backpressure = 0
  /\ stream = "unclaimed"
  /\ received = <<>>
  /\ routedEarly = 0

\* The client has the session's id.
Opened == phase[Opener] = "done"

End(p, how) ==
  /\ phase' = [phase EXCEPT ![p] = "done"]
  /\ ended' = [ended EXCEPT ![p] = how]

Advance(p, where, ids) ==
  /\ phase' = [phase EXCEPT ![p] = where]
  /\ todo' = [todo EXCEPT ![p] = ids]
  /\ UNCHANGED ended

-----------------------------------------------------------------------------
(* forward_and_respond()                                                   *)

\* The session is looked up and child_failed checked.
StartPost(p) ==
  /\ phase[p] = "start"
  /\ p # Opener => Opened
  /\ IF ~inMap THEN End(p, "not_found") /\ UNCHANGED todo
     ELSE IF childFailed THEN End(p, "child_dead") /\ UNCHANGED todo
     ELSE Advance(p, "writing", bodyOf[p])
  /\ UNCHANGED <<bodyOf, chan, answers, pending, inMap, childFailed, alive,
                 inbox, stdout, relay, noticeVars>>

\* One write_message(): the pipe takes it while the child lives.
WriteMessage(p, m) ==
  /\ phase[p] = "writing"
  /\ m \in todo[p]
  /\ IF alive
     THEN /\ inbox' = inbox \cup ({[id |-> m, from |-> p]} \cap Request)
          /\ Advance(p, "writing", todo[p] \ {m})
          /\ UNCHANGED childFailed
     ELSE /\ childFailed' = TRUE
          /\ End(p, "write_failed")
          /\ UNCHANGED <<todo, inbox>>
  /\ UNCHANGED <<bodyOf, chan, answers, pending, inMap, alive, stdout, relay,
                 noticeVars>>

\* All written: 202 if nothing is to be answered, else register the ids; a
\* session removed meanwhile registers none and the sender is dropped.
WritesDone(p) ==
  /\ phase[p] = "writing"
  /\ todo[p] = {}
  /\ IF IdsOf(p) = {} THEN End(p, "accepted") /\ UNCHANGED todo
     ELSE IF inMap THEN Advance(p, "registering", IdsOf(p))
     ELSE Advance(p, "collecting", IdsOf(p))
  /\ UNCHANGED <<bodyOf, chan, answers, pending, inMap, childFailed, alive,
                 inbox, stdout, relay, noticeVars>>

Registered_FirstOnly(p, i) ==
  IF \E j \in Ids : pending[j] = p THEN pending ELSE [pending EXCEPT ![i] = p]
Registered(p, i) == [pending EXCEPT ![i] = p]

RegisterPending(p, i) ==
  /\ phase[p] = "registering"
  /\ i \in todo[p]
  /\ pending' = Registered(p, i)
  /\ IF todo[p] = {i} THEN Advance(p, "collecting", IdsOf(p))
                      ELSE Advance(p, "registering", todo[p] \ {i})
  /\ UNCHANGED <<bodyOf, chan, answers, inMap, childFailed, alive, inbox,
                 stdout, relay, noticeVars>>

Collect(p) ==
  /\ phase[p] = "collecting"
  /\ chan[p] # <<>>
  /\ LET m == Head(chan[p]) IN
       /\ answers' = [answers EXCEPT ![p] = {a \in @ : a.id # m.id} \cup {m}]
       /\ IF todo[p] \subseteq {m.id} THEN End(p, "complete") /\ UNCHANGED todo
                                      ELSE Advance(p, "collecting", todo[p] \ {m.id})
  /\ chan' = [chan EXCEPT ![p] = Tail(@)]
  /\ UNCHANGED <<bodyOf, pending, inMap, childFailed, alive, inbox, stdout,
                 relay, noticeVars>>

\* Every sender is gone: what is missing is reported as "Internal error".
SendersGone(p) ==
  /\ chan[p] = <<>>
  /\ \/ \A i \in Ids : pending[i] # p
     \/ ~inMap /\ relay = "gone"      \* SessionData itself was dropped

Disconnected(p) ==
  /\ phase[p] = "collecting"
  /\ SendersGone(p)
  /\ End(p, "disconnected")
  /\ UNCHANGED <<bodyOf, todo, chan, answers, pending, inMap, childFailed,
                 alive, inbox, stdout, relay, noticeVars>>

\* RESPONSE_TIMEOUT; the pending entries stay behind.
Deadline(p) ==
  /\ phase[p] = "collecting"
  /\ End(p, "timeout")
  /\ UNCHANGED <<bodyOf, todo, chan, answers, pending, inMap, childFailed,
                 alive, inbox, stdout, relay, noticeVars>>

-----------------------------------------------------------------------------
(* The child (external) and the removal of the session.                    *)

\* A result or an error.
ChildAnswers(m) ==
  /\ alive
  /\ m \in inbox
  /\ inbox' = inbox \ {m}
  /\ \E good \in BOOLEAN :
       stdout' = Append(stdout, [id |-> m.id, from |-> m.from, result |-> good])
  /\ UNCHANGED <<handlerVars, inMap, childFailed, alive, relay, noticeVars>>

ChildNotifies ==
  /\ alive
  /\ printed < MaxNotices
  /\ printed' = printed + 1
  /\ stdout' = Append(stdout, Notice(printed + 1))
  /\ UNCHANGED <<handlerVars, inMap, childFailed, alive, inbox, relay,
                 initDone, early, notices, backpressure, stream, received,
                 routedEarly>>

ChildDies ==
  /\ alive
  /\ alive' = FALSE
  /\ inbox' = {}
  /\ UNCHANGED <<handlerVars, inMap, childFailed, stdout, relay, noticeVars>>

\* with_session() holds the map's read lock while a handler writes or registers.
LockedBy(p) ==
  \/ phase[p] = "registering"
  \/ phase[p] = "writing" /\ todo[p] # {}

CloseSession ==
  /\ Opened
  /\ inMap
  /\ \A p \in Posts : ~LockedBy(p)
  /\ inMap' = FALSE
  /\ UNCHANGED <<handlerVars, childFailed, alive, inbox, stdout, relay,
                 noticeVars>>

-----------------------------------------------------------------------------
(* relay_loop()                                                            *)

\* The entry is taken out, then try_send; a full channel loses the message.
Deliver(p, m) == IF Len(chan[p]) < RespCap THEN Append(chan[p], m) ELSE chan[p]

\* The handler that gets the response, if any.
Receiver_AnyWaiting(m) ==
  IF \E p \in Posts : phase[p] = "collecting"
  THEN CHOOSE p \in Posts : phase[p] = "collecting" ELSE Nobody
Receiver(m) == pending[m.id]

\* mark_init_done(): the flag is set before the buffer is sent on, or
\* route_notification() would buffer it again.  The channel is still empty.
Flushed_FlagLast == [early |-> early, notices |-> notices]
Flushed ==
  [early |-> <<>>,
   notices |-> IF stream = "dropped" THEN notices ELSE notices \o early]

MarkInitDone(m) ==
  \/ /\ ~initDone /\ m.result
     /\ initDone' = TRUE
     /\ early' = Flushed.early
     /\ notices' = Flushed.notices
  \/ /\ initDone \/ ~m.result
     /\ UNCHANGED <<initDone, early, notices>>

RouteResponse ==
  /\ relay = "running"
  /\ stdout # <<>> /\ Head(stdout).id # Note
  /\ LET m == Head(stdout) IN
       /\ stdout' = Tail(stdout)
       /\ MarkInitDone(m)
       /\ pending' = [pending EXCEPT ![m.id] = Nobody]
       /\ \/ /\ Receiver(m) \in Posts
             /\ chan' = [chan EXCEPT ![Receiver(m)] =
                           Deliver(Receiver(m), [id |-> m.id, from |-> m.from])]
          \/ /\ Receiver(m) = Nobody
             /\ UNCHANGED chan
  /\ UNCHANGED <<bodyOf, phase, todo, answers, ended, inMap, childFailed,
                 alive, inbox, relay, printed, backpressure, stream, received,
                 routedEarly>>

\* route_notification(): a full buffer loses the oldest, a full channel the
\* newest, a channel whose receiver is gone everything.
RouteNotification ==
  /\ relay = "running"
  /\ stdout # <<>> /\ Head(stdout).id = Note
  /\ stdout' = Tail(stdout)
  /\ LET n == Head(stdout).number IN
       \/ /\ ~initDone
          /\ early' = Append(IF Len(early) < EarlyCap THEN early ELSE Tail(early), n)
          /\ routedEarly' = routedEarly + 1
          /\ UNCHANGED <<notices, backpressure>>
       \/ /\ initDone /\ stream # "dropped" /\ Len(notices) < NoticeCap
          /\ notices' = Append(notices, n)
          /\ UNCHANGED <<early, backpressure, routedEarly>>
       \/ /\ initDone /\ stream # "dropped" /\ Len(notices) = NoticeCap
          /\ backpressure' = backpressure + 1
          /\ UNCHANGED <<early, notices, routedEarly>>
       \/ /\ initDone /\ stream = "dropped"
          /\ UNCHANGED <<early, notices, backpressure, routedEarly>>
  /\ UNCHANGED <<handlerVars, inMap, childFailed, alive, inbox, relay, printed,
                 initDone, stream, received>>

\* recv_message() fails once the child is gone and its output is read.
RelayReadError ==
  /\ relay = "running"
  /\ ~alive
  /\ stdout = <<>>
  /\ relay' = "failing"
  /\ childFailed' = TRUE
  /\ UNCHANGED <<handlerVars, inMap, alive, inbox, stdout, noticeVars>>

\* fail_pending_requests(): an error for every id registered by now, in the
\* order of a HashMap, as far as the channel has room.
FailureOf_Silent(p) == {chan[p]}
FailureOf(p) ==
  LET ids == {i \in Ids : pending[i] = p}
      sent == Smaller(Cardinality(ids), RespCap - Len(chan[p]))
  IN  {chan[p] \o [k \in 1..sent |-> Failure(order[k])] :
         order \in Bijection(1..Cardinality(ids), ids)}

FailPending ==
  /\ relay = "failing"
  /\ relay' = "gone"
  /\ chan' \in [Posts -> UNION {FailureOf(p) : p \in Posts}]
  /\ \A p \in Posts : chan'[p] \in FailureOf(p)
  /\ pending' = [i \in Ids |-> Nobody]
  /\ UNCHANGED <<bodyOf, phase, todo, answers, ended, inMap, childFailed,
                 alive, inbox, stdout, noticeVars>>

-----------------------------------------------------------------------------
(* The GET stream                                                          *)

OpenStream ==
  /\ Opened /\ inMap
  /\ stream = "unclaimed"
  /\ stream' = "open"
  /\ UNCHANGED <<handlerVars, inMap, childFailed, alive, inbox, stdout, relay,
                 printed, initDone, early, notices, backpressure, received,
                 routedEarly>>

WriteNotice ==
  /\ stream = "open"
  /\ notices # <<>>
  /\ received' = Append(received, Head(notices))
  /\ notices' = Tail(notices)
  /\ UNCHANGED <<handlerVars, inMap, childFailed, alive, inbox, stdout, relay,
                 printed, initDone, early, backpressure, stream, routedEarly>>

\* The client goes away, or SessionData is dropped: the sender lives in it,
\* so that the child's death does not end the stream.
StreamEnds ==
  /\ stream = "open"
  /\ stream' = "dropped"
  /\ notices' = <<>>
  /\ UNCHANGED <<handlerVars, inMap, childFailed, alive, inbox, stdout, relay,
                 printed, initDone, early, backpressure, received,
                 routedEarly>>

-----------------------------------------------------------------------------
Handler(p) ==
  \/ \E m \in Ids \cup {Note} : WriteMessage(p, m)
  \/ \E i \in Ids : RegisterPending(p, i)
  \/ WritesDone(p)
  \/ Collect(p)
  \/ Disconnected(p)

Relay == RouteResponse \/ RouteNotification \/ RelayReadError \/ FailPending

RelayNext ==
  \/ \E p \in Posts : StartPost(p) \/ Handler(p) \/ Deadline(p)
  \/ \E m \in Request : ChildAnswers(m)
  \/ ChildNotifies
  \/ ChildDies
  \/ CloseSession
  \/ Relay
  \/ OpenStream \/ WriteNotice \/ StreamEnds

RelaySpec == RelayInit /\ [][RelayNext]_rvars

-----------------------------------------------------------------------------
(* Properties                                                              *)

Answer == [id : Ids, from : Posts, result : BOOLEAN]
Said == [id : Ids, from : Posts \cup {Nobody}]

HandlersTypeOK ==
  /\ bodyOf \in Bodies
  /\ phase \in [Posts -> {"start", "writing", "registering", "collecting", "done"}]
  /\ todo \in [Posts -> SUBSET (Ids \cup {Note})]
  /\ chan \in [Posts -> Seq(Said)]
  /\ answers \in [Posts -> SUBSET Said]
  /\ ended \in [Posts -> {"no", "not_found", "child_dead", "write_failed",
                         "accepted", "complete", "disconnected", "timeout"}]
  /\ pending \in [Ids -> Posts \cup {Nobody}]

ChildTypeOK ==
  /\ inMap \in BOOLEAN /\ childFailed \in BOOLEAN /\ alive \in BOOLEAN
  /\ inbox \subseteq Request
  /\ stdout \in Seq(Answer \cup [id : {Note}, number : Nat])
  /\ relay \in {"running", "failing", "gone"}

NoticesTypeOK ==
  /\ printed \in Nat /\ backpressure \in Nat /\ routedEarly \in Nat
  /\ early \in Seq(Nat) /\ notices \in Seq(Nat) /\ received \in Seq(Nat)
  /\ initDone \in BOOLEAN
  /\ stream \in {"unclaimed", "open", "dropped"}

RelayTypeOK == HandlersTypeOK /\ ChildTypeOK /\ NoticesTypeOK

\* What the relay read is read to the end before it fails anybody, and a dead
\* child owes nothing.
RelayLast ==
  /\ ~alive => inbox = {}
  /\ relay # "running" => ~alive /\ stdout = <<>>

\* What each handler has left to do: it collects until nothing is missing.
TodoFits ==
  \A p \in Posts :
    /\ todo[p] \subseteq bodyOf[p]
    /\ phase[p] \in {"registering", "collecting"} => todo[p] \subseteq IdsOf(p)
    /\ phase[p] = "collecting" => todo[p] # {}

\* A registered id is one the handler has registered and not seen answered.
Registers(p, i) ==
  /\ i \in IdsOf(p)
  /\ phase[p] \in {"registering", "collecting", "done"}
  /\ phase[p] = "registering" => i \notin todo[p]
  /\ phase[p] = "collecting" => i \in todo[p]

PendingFits == \A i \in Ids : pending[i] # Nobody => Registers(pending[i], i)

\* A request with the child, or its answer on the way: it was written, and if
\* its handler had the time to register it and waits, it still is.
Asked(m) ==
  /\ m.id \in IdsOf(m.from)
  /\ phase[m.from] # "start"
  /\ phase[m.from] = "writing" => m.id \notin todo[m.from]
  /\ \/ phase[m.from] = "registering" /\ m.id \notin todo[m.from]
     \/ phase[m.from] = "collecting" /\ inMap
     => pending[m.id] = m.from

AskedOnce ==
  /\ \A m \in inbox : Asked(m)
  /\ \A k \in DOMAIN stdout : stdout[k].id # Note =>
       /\ Asked(stdout[k])
       /\ \A m \in inbox : m.id # stdout[k].id
       /\ \A j \in DOMAIN stdout : stdout[j].id = stdout[k].id => j = k

\* A response channel holds one answer to each of some ids that are no longer
\* registered.
ChannelsFit ==
  \A p \in Posts :
    /\ Len(chan[p]) <= RespCap
    /\ \A k \in DOMAIN chan[p] :
         /\ Registers(p, chan[p][k].id)
         /\ chan[p][k].from \in {p, Nobody}
         /\ pending[chan[p][k].id] # p
         /\ \A j \in DOMAIN chan[p] : chan[p][j].id = chan[p][k].id => j = k

\* While the session is there an id that was registered is answered, on its
\* way, or still registered, unless there are too many of them.
Awaits(p, i) ==
  \/ phase[p] = "registering" /\ i \in IdsOf(p) \ todo[p]
  \/ phase[p] = "collecting" /\ i \in todo[p] /\ inMap

NothingLost ==
  \A p \in Posts : \A i \in Ids :
    (Awaits(p, i) /\ Cardinality(IdsOf(p)) <= RespCap) =>
      pending[i] = p \/ \E k \in DOMAIN chan[p] : chan[p][k].id = i

\* As long as no two POSTs of a session use one id, each gets its own answers,
\* whatever the order the child answers in and whoever gave up meanwhile.
AnswerIsOwn ==
  \A p \in Posts : \A m \in answers[p] : m.id \in IdsOf(p) /\ m.from \in {p, Nobody}

\* A POST is told "Internal error" without waiting for the deadline only when
\* its session was removed under it: a dead child is reported as such, unless
\* the batch is larger than the channel.
DisconnectedOnlyIfClosed ==
  \A p \in Posts :
    ended[p] = "disconnected" => ~inMap \/ Cardinality(IdsOf(p)) > RespCap

RoutingIInv ==
  /\ RelayTypeOK
  /\ RelayLast
  /\ TodoFits
  /\ PendingFits
  /\ AskedOnce
  /\ ChannelsFit
  /\ NothingLost
  /\ AnswerIsOwn
  /\ DisconnectedOnlyIfClosed

Discards(m) == m = Head(stdout) /\ m.id # Note /\ Receiver(m) = Nobody

\* "Responses (has id): routed to matching pending POST handler", exactly: an
\* answer is thrown away only before its handler registered the id, which is
\* after it wrote the request, or when the handler is over or could register
\* nothing because its session was removed.
DiscardedOnlyUnregistered ==
  [][\A m \in {stdout[k] : k \in DOMAIN stdout} :
       (Discards(m) /\ stdout' = Tail(stdout)) =>
         \/ phase[m.from] \in {"writing", "done"}
         \/ phase[m.from] = "registering" /\ m.id \in todo[m.from]
         \/ phase[m.from] = "collecting" /\ ~inMap]_rvars

\* Notifications the buffer did not have room for.
Dropped == IF routedEarly > EarlyCap THEN routedEarly - EarlyCap ELSE 0
\* Notifications the relay has not read yet.
Noted == {k \in DOMAIN stdout : stdout[k].id = Note}
Behind == {stdout[k].number : k \in Noted}

\* Notifications routed and not lost.
Seen == received \o notices \o early

\* The GET stream gets the notifications in the order they were printed,
\* those from before the initialize response first and none of them stuck in
\* the buffer.  While the stream may still come or is there, the oldest early
\* ones beyond the buffer are missing, and as many as the metric counts.
NotificationsInOrder ==
  /\ \A j, k \in DOMAIN Seen : j < k => Seen[j] < Seen[k]
  /\ \A j, k \in Noted : j < k => stdout[j].number < stdout[k].number
  /\ \E routed \in 0..printed :
       /\ Behind = (routed + 1)..printed
       /\ \A k \in DOMAIN Seen : Seen[k] <= routed
       /\ stream # "dropped" => Len(Seen) + Dropped + backpressure = routed
  /\ ~initDone => early = [k \in 1..(routedEarly - Dropped) |-> Dropped + k]
  /\ initDone => early = <<>>

\* Until the initialize is answered every notification that was routed is in
\* the buffer, or was before it overflowed.
NoticesFit ==
  /\ Len(early) <= EarlyCap /\ Len(notices) <= NoticeCap
  /\ ~initDone =>
       /\ notices = <<>> /\ received = <<>> /\ backpressure = 0
       /\ routedEarly <= printed /\ Behind = (routedEarly + 1)..printed

NoticesIInv == RelayTypeOK /\ NotificationsInOrder /\ NoticesFit
=============================================================================
