----------------------------- MODULE SseToStdio ------------------------------
(***************************************************************************)
(* The SSE client (src/src/gateway/sse_to_stdio.rs): one task reads the    *)
(* body of the GET line by line, feeds the parser and handles the events,  *)
(* another takes the lines of stdin and POSTs them to the endpoint the     *)
(* first has discovered.  Both POST, at the same time.                     *)
(***************************************************************************)
EXTENDS Integers, Sequences, SequencesExt, ClientInit, SseParser

CONSTANT Script     \* the types of the lines on stdin, a sequence of LineTypes

VARIABLES
  body,       \* the body of the GET: text the server sent, not yet read
  ended,      \* the server closed the stream
  rest,       \* the parser: text since the last blank line
  events,     \* what feed() returned and is not handled
  followUps,  \* what is left of result.post
  endpoint,   \* endpoint_url is known
  phase,      \* init_phase
  queue,      \* init_pending
  read,       \* lines of stdin the other task has taken
  toPost,     \* what it has to POST
  dropped,    \* history: lines dropped for want of an endpoint
  posted,     \* history: every message POSTed
  answered,   \* how many of them the server has answered or ignored
  stdout,     \* what was written to stdout
  exit        \* "running" or the status of process::exit()

svars == <<body, ended, rest, events, followUps, endpoint, phase, queue, read, toPost,
           dropped, posted, answered, stdout, exit>>
streamVars == <<rest, events, followUps, endpoint>>
stdinVars == <<read, toPost, dropped>>
serverVars == <<body, ended, answered>>

\* The server begins with the endpoint event.
SseInit ==
  /\ body = Text("endpoint", <<>>) /\ ended = FALSE
  /\ rest = <<>> /\ events = <<>> /\ followUps = <<>>
  /\ endpoint = FALSE
  /\ phase = Pending /\ queue = <<>>
  /\ read = 0 /\ toPost = <<>> /\ dropped = <<>>
  /\ posted = <<>> /\ answered = 0 /\ stdout = <<>>
  /\ exit = "running"

Line(i) == Message(Script[i], i)

-----------------------------------------------------------------------------
(* The stream's task                                                       *)

\* read_body_line(): a line without its newline, or the rest at the end.
NextLine ==
  IF Newline \in ToSet(body)
  THEN SubSeq(body, 1, SelectInSeq(body, LAMBDA t : t = Newline) - 1)
  ELSE body

CanReadLine == Newline \in ToSet(body) \/ (ended /\ body # <<>>)

ReadBodyLine ==
  /\ exit = "running"
  /\ events = <<>> /\ followUps = <<>> /\ CanReadLine
  /\ body' = SubSeq(body, Len(NextLine) + 2, Len(body))
  /\ LET r == Feed(rest, NextLine) IN rest' = r.rest /\ events' = r.events
  /\ UNCHANGED <<ended, answered, followUps, endpoint, phase, queue, stdinVars, posted,
                 stdout, exit>>

\* handle_sse_event()
HandleEvent ==
  /\ exit = "running"
  /\ events # <<>> /\ followUps = <<>>
  /\ events' = Tail(events)
  /\ CASE Head(events).type = "endpoint" ->
            /\ endpoint' = TRUE
            /\ UNCHANGED <<followUps, phase, queue, stdout>>
       [] Head(events).type = "message" ->
            LET r == HandleResponse(phase, queue, JsonOf(Head(events).data)) IN
              /\ phase' = r.phase
              /\ queue' = r.queue
              /\ stdout' = stdout \o r.stdout
              /\ followUps' = r.post
              /\ UNCHANGED endpoint
       [] OTHER -> UNCHANGED <<followUps, endpoint, phase, queue, stdout>>
  /\ UNCHANGED <<serverVars, rest, stdinVars, posted, exit>>

\* One POST after the other; without an endpoint the message is lost.
PostFollowUp ==
  /\ exit = "running"
  /\ followUps # <<>>
  /\ followUps' = Tail(followUps)
  /\ posted' = IF endpoint THEN Append(posted, Head(followUps)) ELSE posted
  /\ UNCHANGED <<serverVars, rest, events, endpoint, phase, queue, stdinVars, stdout,
                 exit>>

\* handle_client_error(StreamEnded)
StreamEnds ==
  /\ exit = "running"
  /\ events = <<>> /\ followUps = <<>>
  /\ ended /\ body = <<>>
  /\ exit' = "status 1"
  /\ UNCHANGED <<serverVars, streamVars, phase, queue, stdinVars, posted, stdout>>

-----------------------------------------------------------------------------
(* The task of stdin; the channel before it adds nothing but room.         *)

TakeLine ==
  /\ exit = "running"
  /\ toPost = <<>> /\ read < Len(Script)
  /\ read' = read + 1
  /\ \/ /\ ~IsMessage(Script[read + 1])
        /\ UNCHANGED <<phase, queue, toPost>>
     \/ /\ IsMessage(Script[read + 1])
        /\ LET r == HandleStdin(phase, queue, Line(read + 1)) IN
             /\ phase' = r.phase
             /\ queue' = r.queue
             /\ toPost' = r.post
  /\ UNCHANGED <<serverVars, streamVars, dropped, posted, stdout, exit>>

PostLine ==
  /\ exit = "running"
  /\ toPost # <<>> /\ endpoint
  /\ posted' = posted \o toPost
  /\ toPost' = <<>>
  /\ UNCHANGED <<serverVars, streamVars, phase, queue, read, dropped, stdout, exit>>

\* 200 looks, 10 ms apart: "endpoint URL not discovered, dropping message".
DropLine ==
  /\ exit = "running"
  /\ toPost # <<>> /\ ~endpoint
  /\ dropped' = dropped \o toPost
  /\ toPost' = <<>>
  /\ UNCHANGED <<serverVars, streamVars, phase, queue, read, posted, stdout, exit>>

-----------------------------------------------------------------------------
(* The server, and the signal                                              *)

ServerAnswers ==
  /\ ~ended /\ answered < Len(posted)
  /\ answered' = answered + 1
  /\ body' = IF OwesAnswer(posted[answered + 1])
             THEN body \o Text("message", <<ResponseTo(posted[answered + 1])>>)
             ELSE body
  /\ UNCHANGED <<ended, streamVars, phase, queue, stdinVars, posted, stdout, exit>>

ServerCloses ==
  /\ ~ended
  /\ ended' = TRUE
  /\ UNCHANGED <<body, answered, streamVars, phase, queue, stdinVars, posted, stdout,
                 exit>>

SignalArrives ==
  /\ exit = "running"
  /\ exit' = "status 0"
  /\ UNCHANGED <<serverVars, streamVars, phase, queue, stdinVars, posted, stdout>>

StreamTask == ReadBodyLine \/ HandleEvent \/ PostFollowUp \/ StreamEnds
StdinTask == TakeLine \/ PostLine \/ DropLine

SseNext == StreamTask \/ StdinTask \/ ServerAnswers \/ ServerCloses \/ SignalArrives

SseSpec == SseInit /\ [][SseNext]_svars

\* The gateway's tasks run; the server and who signals owe nothing.
SseFairSpec == SseSpec /\ WF_svars(StreamTask) /\ WF_svars(StdinTask)

-----------------------------------------------------------------------------
(* Properties                                                              *)

\* "First `endpoint` event gives POST URL": a server that sent the event is
\* understood, unless the process ends before.
EndpointDiscovered == <>(endpoint \/ exit # "running")
=============================================================================
