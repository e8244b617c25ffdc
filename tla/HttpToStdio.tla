---------------------------- MODULE HttpToStdio -----------------------------
(***************************************************************************)
(* The Streamable HTTP client (src/src/gateway/http_to_stdio.rs): a thread *)
(* reads stdin into a channel, one task takes line after line, POSTs it    *)
(* and waits for the reply, and the main task waits for a signal and then  *)
(* DELETEs the session.  No request is retried or timed, and both tasks    *)
(* share the id of the session (src/src/client/http.rs).                   *)
(***************************************************************************)
EXTENDS Integers, Sequences, SequencesExt, ClientInit, SseParser

CONSTANTS
  Scripts,    \* what the parent process may write to stdin: types of lines
  ChanCap     \* capacity of the stdin channel (64)

ASSUME ScriptsAreLines == Scripts \subseteq Seq(LineTypes)
ASSUME ChanCapIsPositive == ChanCap \in Nat \ {0}

VARIABLES
  script,     \* the lines of stdin
  read,       \* how many of them the reader thread has taken
  chan,       \* the channel of lines
  phase,      \* init_phase
  queue,      \* init_pending
  level,      \* the task: "idle", in its "first" POST, or its "follow" ups
  outbox,     \* what is left of to_post or of result.post
  posted,     \* history: every message of which a POST was begun
  wire,       \* the exchange: Idle, Sent, or the reply on its way
  got,        \* history: the messages parsed out of replies
  stdout,     \* what was written to stdout
  sid,        \* HttpClient.session_id
  server,     \* the server: "stateless", or its session: NoSession, "open" or
              \* "closed"
  delete,     \* the DELETE at the end: NotSent, or the id it names and whether
              \* it is answered
  exit        \* "running" or the status of process::exit()

hvars == <<script, read, chan, phase, queue, level, outbox, posted, wire, got,
           stdout, sid, server, delete, exit>>
taskVars == <<phase, queue, level, outbox, posted, wire, got, stdout, sid>>

NoSession == "none"
Session == "session"

\* What is on the wire names a session in its header, or none.
Idle == [type |-> "idle", sid |-> NoSession]
Sent(id) == [type |-> "sent", sid |-> id]
NotSent == [state |-> "unsent", sid |-> NoSession]

HttpInit ==
  /\ script \in Scripts
  /\ read = 0 /\ chan = <<>>
  /\ phase = Pending /\ queue = <<>>
  /\ level = "idle" /\ outbox = <<>> /\ posted = <<>>
  /\ wire = Idle /\ got = {} /\ stdout = <<>>
  /\ sid = NoSession /\ server \in {"stateless", NoSession}
  /\ delete = NotSent /\ exit = "running"

Line(i) == Message(script[i], i)

-----------------------------------------------------------------------------
\* The reader thread: it retries a full channel every millisecond.
ReadLine ==
  /\ exit = "running"
  /\ read < Len(script) /\ Len(chan) < ChanCap
  /\ read' = read + 1
  /\ chan' = Append(chan, Line(read + 1))
  /\ UNCHANGED <<script, taskVars, server, delete, exit>>

\* The task takes a line; batches and what does not parse are skipped.
TakeLine ==
  /\ exit = "running"
  /\ level = "idle" /\ chan # <<>>
  /\ chan' = Tail(chan)
  /\ \/ /\ ~IsMessage(Head(chan).type)
        /\ UNCHANGED <<phase, queue, outbox, level>>
     \/ /\ IsMessage(Head(chan).type)
        /\ LET r == HandleStdin(phase, queue, Head(chan)) IN
             /\ phase' = r.phase
             /\ queue' = r.queue
             /\ outbox' = r.post
             /\ level' = IF r.post = <<>> THEN "idle" ELSE "first"
  /\ UNCHANGED <<script, read, posted, wire, got, stdout, sid, server, delete, exit>>

\* HttpClient::post() begins: build_headers() adds the session id.
Post ==
  /\ exit = "running"
  /\ outbox # <<>> /\ wire = Idle
  /\ posted' = Append(posted, Head(outbox))
  /\ outbox' = Tail(outbox)
  /\ wire' = Sent(sid)
  /\ UNCHANGED <<script, read, chan, phase, queue, level, got, stdout, sid, server,
                 delete, exit>>

-----------------------------------------------------------------------------
(* The remote server.  A reply is a JSON body, an SSE body, a body of no   *)
(* declared type, nothing (202), or an HTTP error.  A server with sessions *)
(* opens one for an initialize, names it in that reply only, and answers   *)
(* 400 or 404 to any request without an open one.                          *)

Body(type, msgs) == [type |-> type, msgs |-> msgs, sid |-> NoSession]
Stream(text) == [type |-> "sse", text |-> text, sid |-> NoSession]
HttpError == [type |-> "error", sid |-> NoSession]

Replies(m) ==
  IF ~OwesAnswer(m) THEN {Body("accepted", <<>>)}
  ELSE LET answer == <<ResponseTo(m)>>
           event == Text("message", <<ServerEvent>>)
       IN  {Body("json", answer), Body("json", <<ErrorForNone>>),
            Body("unknown", answer),
            Stream(event \o Text("message", answer)),
            Stream(event \o Unfinished("message", answer)),
            Stream(Text("ping", answer))}

ServerReplies ==
  /\ wire.type = "sent"
  /\ LET m == posted[Len(posted)] IN
       \/ /\ wire' = HttpError
          /\ UNCHANGED server
       \/ /\ server = "stateless" \/ (wire.sid = Session /\ server = "open")
          /\ wire' \in Replies(m)
          /\ UNCHANGED server
       \/ /\ m.type = "initialize" /\ wire.sid = NoSession /\ server = NoSession
          /\ \E r \in Replies(m) : wire' = [r EXCEPT !.sid = Session]
          /\ server' = "open"
  /\ UNCHANGED <<script, read, chan, phase, queue, level, outbox, posted, got, stdout,
                 sid, delete, exit>>

ServerDeletes ==
  /\ delete.state = "sent"
  /\ delete' = [delete EXCEPT !.state = "answered"]
  /\ server' = IF delete.sid = Session /\ server = "open" THEN "closed" ELSE server
  /\ UNCHANGED <<script, read, chan, taskVars, exit>>

-----------------------------------------------------------------------------
(* A reply                                                                 *)

\* The events of a body that is a stream.
EventsIn(r) == IF r.type = "sse" THEN Feed(<<>>, r.text).events ELSE <<>>

\* parse_sse_event_data() of all events of a body.
EventMessages(events) ==
  FlattenSeq([k \in DOMAIN events |->
    IF events[k].type = "message" THEN JsonOf(events[k].data) ELSE <<>>])

\* A body of no declared type is taken for JSON, except in a follow-up.
Parsed(r, events) ==
  CASE r.type = "json" -> r.msgs
    [] r.type = "sse" -> EventMessages(events)
    [] r.type = "unknown" -> IF level = "first" THEN r.msgs ELSE <<>>
    [] r.type = "accepted" -> <<>>

\* capture_session_id(): a reply that names no session leaves the id alone.
Captured_Always(r) == r.sid
Captured(r) == IF r.sid = NoSession THEN sid ELSE r.sid

\* What is still to be POSTed: what a reply to a follow-up asks for is not.
Left(r) == IF level = "first" THEN r.post ELSE outbox

Receive ==
  /\ exit = "running"
  /\ wire.type \notin {"idle", "sent", "error"}
  /\ \E events \in {EventsIn(wire)} : \E msgs \in {Parsed(wire, events)} :
     \E r \in {HandleResponse(phase, queue, msgs)} :
       /\ got' = got \cup ToSet(msgs)
       /\ phase' = r.phase
       /\ queue' = r.queue
       /\ stdout' = stdout \o r.stdout
       /\ outbox' = Left(r)
       /\ level' = IF Left(r) = <<>> THEN "idle" ELSE "follow"
  /\ sid' = Captured(wire)
  /\ wire' = Idle
  /\ UNCHANGED <<script, read, chan, posted, server, delete, exit>>

\* handle_client_error() logs it, or exits if the text of the error says EOF
\* or connection reset.
HandleError ==
  /\ exit = "running"
  /\ wire' = Idle
  /\ level' = IF outbox = <<>> THEN "idle" ELSE level
  /\ exit' \in {"running", "exit_1"}
  /\ UNCHANGED <<script, read, chan, phase, queue, outbox, posted, got, stdout, server,
                 delete>>

\* An HTTP error, and a connection that breaks before or after the server saw
\* the request.
ReceiveError == wire.type = "error" /\ HandleError /\ sid' = Captured(wire)
ConnectionBreaks == wire # Idle /\ HandleError /\ UNCHANGED sid

-----------------------------------------------------------------------------
\* A signal came and wait() has returned (module Shutdown): the main task
\* DELETEs the session it knows of.  The other task goes on meanwhile.
BeginDelete ==
  /\ exit = "running" /\ delete = NotSent
  /\ delete' = [state |-> "sent", sid |-> sid]
  /\ UNCHANGED <<script, read, chan, taskVars, server, exit>>

\* The server answered the DELETE, or its connection broke.
Exit ==
  /\ exit = "running" /\ delete.state \in {"sent", "answered"}
  /\ exit' = "exit_0"
  /\ UNCHANGED <<script, read, chan, taskVars, server, delete>>

HttpNext ==
  \/ ReadLine \/ TakeLine \/ Post \/ ServerReplies \/ Receive \/ ReceiveError
  \/ ConnectionBreaks \/ ServerDeletes \/ BeginDelete \/ Exit

HttpSpec == HttpInit /\ [][HttpNext]_hvars

\* The gateway's threads run; the server and the parent process owe nothing.
HttpFairSpec ==
  /\ HttpSpec
  /\ WF_hvars(ReadLine) /\ WF_hvars(TakeLine) /\ WF_hvars(Post)
  /\ WF_hvars(Receive) /\ WF_hvars(ReceiveError)

-----------------------------------------------------------------------------
(* Properties                                                              *)

IsLine(m) == m.name > 0 /\ IsMessage(m.type)
LinesOf(msgs) == SelectSeq(msgs, IsLine)

\* The lines that are messages, each once and in their order.
AreTheLines(msgs) ==
  /\ \A k \in DOMAIN msgs :
       IsLine(msgs[k]) => msgs[k].name \in DOMAIN script /\ msgs[k] = Line(msgs[k].name)
  /\ \A j, k \in DOMAIN msgs :
       j < k /\ IsLine(msgs[j]) /\ IsLine(msgs[k]) => msgs[j].name < msgs[k].name
  /\ \A i \in DOMAIN script :
       IsMessage(script[i]) => \E k \in DOMAIN msgs : msgs[k] = Line(i)

Unread == [i \in 1..(Len(script) - read) |-> Line(read + i)]

\* A line of stdin is POSTed once at most, and in its order, through channel,
\* queue and follow-ups, and until then it is in exactly one of them; a failed
\* POST is not repeated.
LinesInOrder ==
  AreTheLines(posted \o outbox \o queue \o chan \o Unread)

\* The server is sent initialize first and nothing more before the gateway has
\* its answer; "initialized" comes next if the gateway made it up.
HandshakeFirst ==
  /\ posted # <<>> => posted[1].type = "initialize"
  /\ Len(posted) > 1 =>
       /\ ResponseTo(posted[1]) \in got
       /\ posted[1] = SyntheticInit <=> posted[2] = Initialized

IsAnswer(m) == m.type = "response" /\ m # ErrorForNone

\* A response on stdout answers a line of stdin that asks for one, once, in
\* the order of the lines: none is for the gateway's own initialize.
AnswersAreForLines ==
  /\ \A i \in DOMAIN stdout : IsAnswer(stdout[i]) =>
       stdout[i].name \in 1..read /\ OwesAnswer(Line(stdout[i].name))
  /\ \A i, j \in DOMAIN stdout :
       i < j /\ IsAnswer(stdout[i]) /\ IsAnswer(stdout[j]) => stdout[i].name < stdout[j].name

\* Once a reply has told the client of its session, every POST and the DELETE
\* name it, whatever other replies came in between.
SessionIsNamed ==
  [][/\ server # "stateless" /\ posted # <<>> /\ ResponseTo(posted[1]) \in got
     => /\ posted' # posted => wire'.sid = Session
        /\ delete = NotSent /\ delete' # delete => delete'.sid = Session]_hvars

\* Every line is POSTed in the end, unless the process exits, a POST is never
\* answered, or the initialize was not answered with a response.
EveryLineIsPosted ==
  \/ <>(exit # "running" \/ LinesOf(posted) = LinesOf([i \in 1..Len(script) |-> Line(i)]))
  \/ <>[](wire.type = "sent")
  \/ <>[](phase.kind = "waiting")

-----------------------------------------------------------------------------
(* The inductive invariant behind them                                     *)

LineMessage == [type : LineTypes, name : Nat \ {0}]
Sendable == LineMessage \cup {SyntheticInit, Initialized}

QueuesTypeOK ==
  /\ script \in Scripts /\ read \in 0..Len(script)
  /\ {chan, queue} \subseteq Seq(LineMessage)
  /\ {outbox, posted} \subseteq Seq(Sendable)

\* The variables have their types; those of level, wire and sid are in
\* LevelFits and SessionFits. What the server sends is typed where it matters.
ClientTypeOK ==
  /\ QueuesTypeOK
  /\ Len(chan) <= ChanCap
  /\ server \in {"stateless", NoSession, "open", "closed"}
  /\ delete \in [state : {"unsent", "sent", "answered"}, sid : {NoSession, Session}]
  /\ exit \in {"running", "exit_0", "exit_1"}

\* The initialize goes alone; what waited for its answer follows it, behind
\* "initialized" if the gateway made it up.
PhaseFits ==
  \/ phase = Pending /\ posted = <<>> /\ outbox = <<>> /\ queue = <<>>
  \/ /\ phase.kind = "waiting" /\ phase = Waiting(phase.init)
     /\ phase.init \in LineMessage \cup {SyntheticInit} /\ phase.init.type = "initialize"
     /\ \/ posted = <<>> /\ outbox = <<phase.init>>
        \/ posted = <<phase.init>> /\ outbox = <<>>
  \/ /\ phase = Ready /\ queue = <<>>
     /\ posted # <<>> /\ posted[1].type = "initialize" /\ ResponseTo(posted[1]) \in got
     /\ posted[1] = SyntheticInit => Len(posted \o outbox) > 1
     /\ Len(posted \o outbox) > 1 =>
          (posted[1] = SyntheticInit <=> (posted \o outbox)[2] = Initialized)

\* One POST at a time, and nothing left over when the task takes a line.
LevelFits ==
  /\ level \in {"idle", "first", "follow"}
  /\ level = "idle" => outbox = <<>> /\ wire = Idle
  /\ level = "first" => IF wire = Idle THEN Len(outbox) = 1 ELSE outbox = <<>>
  /\ level = "follow" => phase = Ready

\* A server with sessions takes no part in an exchange that names none, but
\* the one that opens a session, and tells its id in that reply.
SessionFits ==
  /\ wire.type \in {"idle", "sent", "error", "accepted", "json", "unknown", "sse"}
  /\ {wire.sid, sid} \subseteq {NoSession, Session}
  /\ wire.type = "sent" /\ wire.sid = Session => sid = Session
  /\ server # "stateless" =>
       /\ wire.type \notin {"idle", "sent", "error"} => Session \in {wire.sid, sid}
       /\ got # {} => sid = Session

\* What was POSTed last is what the exchange is about; the gateway's own
\* initialize is out of the way once its answer is there.
Asked == posted[Len(posted)]
ExchangeFits ==
  /\ wire # Idle => posted # <<>>
  /\ wire.type \notin {"idle", "sent", "error"} =>
       \E r \in Replies(Asked) : wire \in {r, [r EXCEPT !.sid = Session]}
  /\ phase = Ready =>
       /\ \A k \in DOMAIN outbox : outbox[k] # SyntheticInit
       /\ wire # Idle => Asked # SyntheticInit

\* An answer on stdout is to a line POSTed before the one that is out.
Outgoing == [type : {"response", "notification"}, name : Int]
AnswersFit ==
  /\ stdout \in Seq(Outgoing)
  /\ \A i \in DOMAIN stdout : IsAnswer(stdout[i]) =>
       \E k \in DOMAIN posted :
         /\ IsLine(posted[k]) /\ OwesAnswer(posted[k]) /\ stdout[i].name = posted[k].name
         /\ wire # Idle => k < Len(posted)
  /\ \A i, j \in DOMAIN stdout :
       i < j /\ IsAnswer(stdout[i]) /\ IsAnswer(stdout[j]) => stdout[i].name < stdout[j].name

ClientIInv ==
  /\ QueuesTypeOK /\ PhaseFits /\ LevelFits /\ SessionFits /\ LinesInOrder
  /\ ExchangeFits /\ AnswersFit
=============================================================================
