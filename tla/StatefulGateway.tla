-------------------------- MODULE StatefulGateway ---------------------------
(***************************************************************************)
(* The HTTP handlers of the stateful gateway as callers of the session     *)
(* table: POST, GET and DELETE on /mcp, the idle timers they arm and the   *)
(* drain task of a DELETE (src/src/gateway/stateful_http.rs).              *)
(*                                                                         *)
(* Each request is a thread of its own, and may leave two futures behind:  *)
(* a timer and a drain.  Of forward_and_respond() this module keeps where  *)
(* it is, for its write to the child holds the table's lock for reading    *)
(* and has no deadline; what is said is in StatefulRelay, the queue at the *)
(* lock and the pipes in TableLock.  Clients name sessions whose id they   *)
(* were sent; other ids give 404 and change nothing.  A timer may fire,    *)
(* and a deadline pass, at any moment.                                     *)
(***************************************************************************)
EXTENDS SessionManager

CONSTANTS
  Requests,   \* HTTP requests the clients make, one connection each
  Methods     \* those of "POST", "GET", "DELETE" the clients use

ASSUME TasksOfRequests == Tasks = Requests \X {"http", "timer", "drain"}

VARIABLES
  step,      \* where the handler of the request is
  target,    \* the session the request is about
  timer,     \* generation the request's idle timer waits with, or NoTimer
  drain,     \* the request's drain task
  known,     \* sessions whose id a client was sent
  hasSse,    \* SessionData.has_sse_stream
  rxTaken,   \* SessionData.notification_rx is None
  clients    \* Metrics.active_clients

gvars == <<step, target, timer, drain, known, hasSse, rxTaken, clients>>
allVars == <<vars, gvars>>

NoTimer == -1
Http(r) == <<r, "http">>

GwInit ==
  /\ Init
  /\ step = [r \in Requests |-> "new"]
  /\ target = [r \in Requests |-> NoSession]
  /\ timer = [r \in Requests |-> NoTimer]
  /\ drain = [r \in Requests |-> "none"]
  /\ known = {}
  /\ hasSse = [s \in SessionIds |-> FALSE]
  /\ rxTaken = [s \in SessionIds |-> FALSE]
  /\ clients = 0

Goto(r, where) == step' = [step EXCEPT ![r] = where]

\* The handler is not inside a manager call.
At(r, where) == step[r] = where /\ pc[Http(r)] = "ready"

\* with_session() writes to a child with the table locked for reading: who
\* wants the lock for writing waits until no handler does.
Writing == {r \in Requests : step[r] = "writing"}
NobodyWrites == Writing = {}

-----------------------------------------------------------------------------
(* POST without a session header: handle_post_initialize().                *)

SpawnChild(r) ==
  /\ At(r, "new") /\ "POST" \in Methods
  /\ \E where \in {"spawned", "done"} : Goto(r, where)   \* or spawn failed: 500
  /\ UNCHANGED <<vars, target, timer, drain, known, hasSse, rxTaken, clients>>

CreateSession(r, s) ==
  /\ At(r, "spawned")
  /\ NobodyWrites
  /\ Create(Http(r), s)
  /\ target' = [target EXCEPT ![r] = s]
  /\ Goto(r, "created")
  /\ UNCHANGED <<timer, drain, known, hasSse, rxTaken, clients>>

RefuseSession(r) ==
  /\ At(r, "spawned")
  /\ NobodyWrites
  /\ ~HasRoom
  /\ Goto(r, "done")
  /\ UNCHANGED <<vars, target, timer, drain, known, hasSse, rxTaken, clients>>

\* Nobody else knows the id yet, so acquire() cannot fail here.
EnterNew(r) ==
  /\ At(r, "created")
  /\ AcquireCount(Http(r), target[r])
  /\ Goto(r, "serving")
  /\ UNCHANGED <<target, timer, drain, known, hasSse, rxTaken, clients>>

(* POST and GET with a session header start with acquire().                *)
Enter(r, s, method, where) ==
  /\ At(r, "new") /\ method \in Methods
  /\ s \in known
  /\ target' = [target EXCEPT ![r] = s]
  /\ \/ AcquireCount(Http(r), s) /\ Goto(r, where)
     \/ state[s] # "Active" /\ Goto(r, "done") /\ UNCHANGED vars  \* 503, 404
  /\ UNCHANGED <<timer, drain, known, hasSse, rxTaken, clients>>

PostExisting(r, s) == Enter(r, s, "POST", "serving")
GetStream(r, s) == Enter(r, s, "GET", "claim")

(* forward_and_respond(): the write, as long as the child takes for it;    *)
(* then, if all was written and there are requests, their answers for      *)
(* RESPONSE_TIMEOUT at most.  After it the guard is dropped and            *)
(* spawn_idle_timer_if_needed() looks at the count.                        *)
AfterReply_TimerFirst == "timer"
AfterReply == "drop"

BeginWrite(r) ==
  /\ At(r, "serving")
  /\ \/ target[r] \in InMap /\ Goto(r, "writing")
     \/ Goto(r, AfterReply)          \* no session any more, or child_failed
  /\ UNCHANGED <<vars, target, timer, drain, known, hasSse, rxTaken, clients>>

EndWrite(r) ==
  /\ At(r, "writing")
  /\ \E next \in {"waiting", AfterReply} : Goto(r, next)
  /\ UNCHANGED <<vars, target, timer, drain, known, hasSse, rxTaken, clients>>

Respond(r) ==
  /\ At(r, "waiting")
  /\ Goto(r, AfterReply)
  /\ UNCHANGED <<vars, target, timer, drain, known, hasSse, rxTaken, clients>>

DropBeforeTimer(r) ==
  /\ At(r, "drop")
  /\ DropGuard(Http(r))
  /\ Goto(r, "timer")
  /\ UNCHANGED <<target, timer, drain, known, hasSse, rxTaken, clients>>

-----------------------------------------------------------------------------
(* spawn_idle_timer_if_needed(): access_count() and timeout_gen() take the *)
(* read lock one after the other.                                          *)

SeesIdle(s) == s \in InMap /\ accessCount[s] = 0

\* A stream's handler still owns its guard here; the response of the others
\* goes out and tells the client the session id.
Leave(r) ==
  /\ Goto(r, IF guard[Http(r)] = NoSession THEN "done" ELSE "release")
  /\ known' = known \cup {target[r]}

CheckCount(r) ==
  /\ At(r, "timer")
  /\ IF SeesIdle(target[r]) THEN Goto(r, "arm") /\ UNCHANGED known
                            ELSE Leave(r)
  /\ UNCHANGED <<vars, target, timer, drain, hasSse, rxTaken, clients>>

ArmTimer(r) ==
  /\ At(r, "arm")
  /\ timer' = [timer EXCEPT ![r] = IF target[r] \in InMap
                                   THEN timeoutGen[target[r]] ELSE NoTimer]
  /\ Leave(r)
  /\ UNCHANGED <<vars, target, drain, hasSse, rxTaken, clients>>

(* The timer's future wakes up and calls try_idle_close().                 *)
FireTimer(r) ==
  /\ timer[r] # NoTimer
  /\ timer' = [timer EXCEPT ![r] = NoTimer]
  /\ \/ IdleCheck(<<r, "timer">>, target[r], timer[r])
     \/ ~IdleAt(target[r], timer[r]) /\ UNCHANGED vars
  /\ UNCHANGED <<step, target, drain, known, hasSse, rxTaken, clients>>

-----------------------------------------------------------------------------
(* GET: claim the flag, take the receiver, stream, disconnect_sse_stream().*)

ClaimStream(r) ==
  /\ At(r, "claim")
  /\ IF target[r] \in InMap /\ ~hasSse[target[r]]
     THEN /\ hasSse' = [hasSse EXCEPT ![target[r]] = TRUE]
          /\ Goto(r, "take")
     ELSE Goto(r, "release") /\ UNCHANGED hasSse                       \* 409
  /\ UNCHANGED <<vars, target, timer, drain, known, rxTaken, clients>>

TakeReceiver(r) ==
  /\ At(r, "take")
  /\ IF target[r] \in InMap /\ ~rxTaken[target[r]]
     THEN /\ rxTaken' = [rxTaken EXCEPT ![target[r]] = TRUE]
          /\ clients' = clients + 1
          /\ Goto(r, "streaming")
     ELSE Goto(r, "release") /\ UNCHANGED <<rxTaken, clients>>         \* 409
  /\ UNCHANGED <<vars, target, timer, drain, known, hasSse>>

\* The client went away, a write failed, or the channel closed.
ClientsAfterStream_Forgotten == clients
ClientsAfterStream == clients - 1

EndStream(r) ==
  /\ At(r, "streaming")
  /\ clients' = ClientsAfterStream
  /\ Goto(r, "timer")
  /\ UNCHANGED <<vars, target, timer, drain, known, hasSse, rxTaken>>

\* The connection, and the guard in it, are dropped when the handler returns.
Release(r) ==
  /\ At(r, "release")
  /\ DropGuard(Http(r))
  /\ Goto(r, "done")
  /\ UNCHANGED <<target, timer, drain, known, hasSse, rxTaken, clients>>

-----------------------------------------------------------------------------
(* DELETE: begin_delete(), then a task that polls until the drain timeout. *)

Delete(r, s) ==
  /\ At(r, "new") /\ "DELETE" \in Methods
  /\ s \in known
  /\ NobodyWrites
  /\ target' = [target EXCEPT ![r] = s]
  /\ \/ BeginDelete(Http(r), s) /\ drain' = [drain EXCEPT ![r] = "first"]
     \/ state[s] # "Active" /\ UNCHANGED <<vars, drain>>
  /\ Goto(r, "done")
  /\ UNCHANGED <<timer, known, hasSse, rxTaken, clients>>

DrainPoll(r) ==
  /\ drain[r] \in {"first", "polling"}
  /\ NobodyWrites
  /\ \/ /\ TryDrainClose(<<r, "drain">>, target[r])
        /\ drain' = [drain EXCEPT ![r] = "over"]
     \/ /\ drain[r] = "first"
        /\ ~Drained(target[r])
        /\ drain' = [drain EXCEPT ![r] = "polling"]
        /\ UNCHANGED vars
  /\ UNCHANGED <<step, target, timer, known, hasSse, rxTaken, clients>>

\* Nobody but this task takes a Closing session out of the map.
ForceClose_GiveUp(r) == UNCHANGED vars
ForceClose(r) == CompleteClose(<<r, "drain">>, target[r])

DrainTimeout(r) ==
  /\ drain[r] = "polling"
  /\ NobodyWrites
  /\ ForceClose(r)
  /\ drain' = [drain EXCEPT ![r] = "over"]
  /\ UNCHANGED <<step, target, timer, known, hasSse, rxTaken, clients>>

-----------------------------------------------------------------------------
\* A task inside a manager operation goes on with it.
InManager(t) ==
  /\ \/ Continue(t)
     \/ NobodyWrites /\ (IdleClose(t) \/ IdleAbandon(t))
  /\ UNCHANGED gvars

\* The part of a request and of its futures that goes on by itself.
Progress(r) ==
  \/ \E k \in {"http", "timer", "drain"} : InManager(<<r, k>>)
  \/ \E s \in SessionIds : CreateSession(r, s)
  \/ RefuseSession(r)
  \/ EnterNew(r)
  \/ BeginWrite(r)
  \/ Respond(r)
  \/ DropBeforeTimer(r)
  \/ CheckCount(r)
  \/ ArmTimer(r)
  \/ ClaimStream(r)
  \/ TakeReceiver(r)
  \/ Release(r)

\* What a client decides, or a child: when it has read what is written to it.
Arrive(r) ==
  \/ SpawnChild(r)
  \/ EndWrite(r)
  \/ EndStream(r)
  \/ \E s \in SessionIds : PostExisting(r, s) \/ GetStream(r, s) \/ Delete(r, s)

GwNext ==
  \E r \in Requests :
    \/ Progress(r)
    \/ Arrive(r)
    \/ FireTimer(r)
    \/ DrainPoll(r)
    \/ DrainTimeout(r)

GwSpec == GwInit /\ [][GwNext]_allVars

\* Threads and futures run, timers fire, deadlines pass; clients owe nothing,
\* and a child need not end a write, which has no deadline.
GwFairSpec ==
  /\ GwSpec
  /\ \A r \in Requests :
       /\ WF_allVars(Progress(r))
       /\ WF_allVars(FireTimer(r))
       /\ WF_allVars(DrainPoll(r))
       /\ WF_allVars(DrainTimeout(r))

-----------------------------------------------------------------------------
(* Properties                                                              *)

\* Every variable has its type.
GwTypeOK ==
  /\ TypeOK
  /\ step \in [Requests -> {"new", "spawned", "created", "serving",
                            "writing", "waiting", "drop", "timer", "arm",
                            "claim", "take", "streaming", "release", "done"}]
  /\ target \in [Requests -> SessionIds \cup {NoSession}]
  /\ timer \in [Requests -> Nat \cup {NoTimer}]
  /\ drain \in [Requests -> {"none", "first", "polling", "over"}]
  /\ known \subseteq SessionIds
  /\ hasSse \in [SessionIds -> BOOLEAN]
  /\ rxTaken \in [SessionIds -> BOOLEAN]
  /\ clients \in Nat

Streaming == {r \in Requests : step[r] = "streaming"}

\* A session has at most one open stream, and active_clients counts them.
StreamsExact ==
  /\ clients = Cardinality(Streaming)
  /\ \A q, r \in Streaming : target[q] = target[r] => q = r

\* The handlers that are inside their session: each holds its guard.
Inside == {"serving", "writing", "waiting", "drop", "claim", "take", "streaming",
           "release"}

\* What ties a handler to the session and the guard it works with; with IInv
\* of the table it is inductive.
GwBookkeeping ==
  /\ \A r \in Requests :
       /\ step[r] \in Inside => guard[Http(r)] = target[r]
       /\ step[r] \in {"timer", "arm"} => guard[Http(r)] \in {NoSession, target[r]}
       /\ \/ step[r] \in Inside \cup {"created", "timer", "arm"}
          \/ timer[r] # NoTimer
          \/ drain[r] \in {"first", "polling"}
          => target[r] \in SessionIds
  /\ \A r \in Streaming : rxTaken[target[r]]
  /\ \A t \in Tasks : guard[t] # NoSession => state[guard[t]] # "Unused"
  /\ \A s \in SessionIds : closedBy[s] # "clear"

GwIInv == IInv /\ GwTypeOK /\ GwBookkeeping /\ StreamsExact

\* A request in service or an open stream loses its session only to the
\* deadline of a DELETE: no timer, drain poll or other request takes it away.
InFlightIsSafe ==
  \A r \in Requests :
    step[r] \in {"serving", "writing", "waiting", "take", "streaming"} =>
      target[r] \in InMap \/ closedBy[target[r]] = "force"

\* An Active session nobody uses or is about to leave has a timer waiting
\* with its current generation: no order of arrivals and departures leaves a
\* session without one (spawn_idle_timer_if_needed).
IdleSessionHasTimer ==
  \A s \in SessionIds :
    \/ state[s] # "Active"
    \/ Holders(s) # {}
    \/ \E r \in Requests :
         /\ target[r] = s
         /\ \/ step[r] \in {"created", "timer", "arm"}
            \/ timer[r] = timeoutGen[s]
            \/ pc[<<r, "timer">>] = "recheck" /\ arg[<<r, "timer">>].gen = timeoutGen[s]

\* A child that never ends a write to it keeps the table's lock from all that
\* would close a session, its own and every other: the one way in which the
\* promises below fail.
Jammed == Writing # {}

\* With a session timeout every session that never had a stream ends and
\* kill() is called on its child, by a timer, a drain or a deadline, whatever
\* requests come, overlap and go, unless a write to a child never ends.
EverySessionReaped ==
  \/ <>[]Jammed
  \/ \A s \in SessionIds : state[s] = "Active" ~> cleaned[s] = 1 \/ hasSse[s]

\* A DELETE that was answered 200 takes the session out and calls kill() on
\* its child, drained or not, unless a write to a child never ends.
DeleteCloses ==
  \/ <>[]Jammed
  \/ \A s \in SessionIds : state[s] = "Closing" ~> cleaned[s] = 1
=============================================================================
