----------------------------- MODULE ClientInit ------------------------------
(***************************************************************************)
(* The handshake of the client modes: the InitPhase machine that           *)
(* src/src/gateway/http_to_stdio.rs and src/src/gateway/sse_to_stdio.rs    *)
(* both hold, word for word.  The first line of stdin either is an         *)
(* initialize, which is passed through, or makes the gateway send one of   *)
(* its own (D-004).  What comes while the answer is out is kept.           *)
(*                                                                         *)
(* A message is its type and its name: the number of its line of stdin,    *)
(* which a response to it has too.  Requests have distinct ids, compared   *)
(* without quotes.  A client's response to the server is treated as its    *)
(* notifications are, and stands with them.                                *)
(***************************************************************************)
EXTENDS Integers, Sequences, SequencesExt

LineTypes == {"initialize", "request", "notification", "batch", "garbage"}
IsMessage(type) == type \notin {"batch", "garbage"}

Message(type, name) == [type |-> type, name |-> name]

\* Messages that are no line of stdin: the gateway's own initialize and what
\* follows it, a notification of the server, an error about no request.
SyntheticInit == Message("initialize", 0)
Initialized == Message("initialized", 0)
ServerEvent == Message("notification", 0)
ErrorForNone == Message("response", -1)

ResponseTo(m) == Message("response", m.name)
OwesAnswer(m) == m.type \in {"initialize", "request"}

Pending == [kind |-> "pending"]
Waiting(init) == [kind |-> "waiting", init |-> init]
Ready == [kind |-> "ready"]

-----------------------------------------------------------------------------
(* handle_stdin_message(): the phase, the queue and what to POST.          *)

Queued_InFront(queue, msg) == <<msg>> \o queue
Queued(queue, msg) == Append(queue, msg)

HandleStdin(phase, queue, msg) ==
  CASE phase.kind = "pending" /\ msg.type = "initialize" ->
         [phase |-> Waiting(msg), queue |-> queue, post |-> <<msg>>]
    [] phase.kind = "pending" /\ msg.type # "initialize" ->
         [phase |-> Waiting(SyntheticInit), queue |-> Queued(queue, msg),
          post |-> <<SyntheticInit>>]
    [] phase.kind = "waiting" ->
         [phase |-> phase, queue |-> Queued(queue, msg), post |-> <<>>]
    [] phase.kind = "ready" ->
         [phase |-> phase, queue |-> queue, post |-> <<msg>>]

-----------------------------------------------------------------------------
(* handle_response_messages() and handle_sse_event()                       *)

IsInitAnswer_AnyResponse(m, init) == m.type = "response"
IsInitAnswer(m, init) == m = ResponseTo(init)

\* What stdout sees: all but the answer to the gateway's own initialize.
Shown_All(init, msgs) == msgs
Shown(init, msgs) ==
  IF init = SyntheticInit THEN RemoveFirst(msgs, ResponseTo(init)) ELSE msgs

\* What is POSTed, and what stays queued, once the answer is there.
FollowUps_NoQueue(init, queue) ==
  IF init = SyntheticInit THEN <<Initialized>> ELSE <<>>
FollowUps(init, queue) ==
  IF init = SyntheticInit THEN <<Initialized>> \o queue ELSE queue
Kept_All(init, queue) == queue
Kept(init, queue) == <<>>

HandleResponse(phase, queue, msgs) ==
  IF /\ phase.kind = "waiting"
     /\ \E m \in ToSet(msgs) : IsInitAnswer(m, phase.init)
  THEN [phase |-> Ready, queue |-> Kept(phase.init, queue),
        stdout |-> Shown(phase.init, msgs),
        post |-> FollowUps(phase.init, queue)]
  ELSE [phase |-> phase, queue |-> queue, stdout |-> msgs, post |-> <<>>]
=============================================================================
