# A TLA+ model of supergateway-rs

supergateway-rs bridges MCP servers that speak JSON-RPC on stdin and stdout to
HTTP, SSE and WebSocket clients, and back. This directory holds TLA+ modules of
its parts, the TLC configurations that check them on small instances, and
proofs for TLAPS of what matters most about them: of the session table, the
stateful gateway and its relay, the SSE, WebSocket and stateless gateways, the
child bridge, the HTTP client mode, the dispatch with its headers, the OAuth2
server and the signal handler.
`PROJECT.json` lists the components, the runs, the source lines each definition
stands for, the hazards of the code and the properties that watch them.

    tlc -workers 2 -config MCStatefulGateway.cfg MCStatefulGateway.tla
    tlapm SessionManagerProofs.tla

Paths below are relative to the repository, line numbers those of the modelled
commit.

## 1. The system

| component | state | operations | talks to |
|---|---|---|---|
| session table, `src/session.rs` | `RwLock<HashMap>` of sessions with state, `access_count`, `timeout_gen`; gauges | create, acquire, guard drop, begin_delete, complete_close, try_drain_close, try_idle_close, clear | the stateful gateway's handlers call it; its cleanup callback kills the session's child |
| stateful gateway, `src/gateway/stateful_http.rs` | per session: child, relay thread, pending requests, notification buffer, SSE flag and receiver | POST, GET, DELETE on `/mcp`; idle timers; drain tasks; the relay | session table, child bridge |
| child bridge, `src/child.rs` | stdin mutex, dead flag, exit code, reader and wait threads, stdout channel | spawn, write_message, recv_message, kill, Drop | every server gateway owns one or many |
| SSE gateway, `src/gateway/sse.rs` | client map, early buffer, event counter, gauges | connect, stream, disconnect, POST of messages, broadcast | one child, one relay |
| WebSocket gateway, `src/gateway/ws.rs` | client map, id multiplexer, early buffer, gauges | connect, frames, disconnect, route, broadcast, close all | one child, one relay |
| stateless gateway, `src/gateway/stateless_http.rs` | permit counter; per request: child, phase, collected messages | one POST from permit to kill | a child per request |
| SSE to stdio, `src/gateway/sse_to_stdio.rs` | `InitPhase`, queue of early messages, endpoint | a task reads events, another lines of stdin; both POST | a remote server, through `src/client/` |
| HTTP to stdio, `src/gateway/http_to_stdio.rs` | `InitPhase`, queue, channel of stdin | one task: a line, its POST, the reply, the follow-ups; signal and DELETE | a remote server, through `src/client/` |
| SSE parser, `src/client/sse.rs` | line buffer, event being built | feed | both client modes |
| HTTP client, `src/client/http.rs` | session id | post, get_stream, delete | both client modes |
| codec, `src/codec.rs` | partial buffer | read_message | child bridge |
| signals, `src/signal.rs` | two flags, self-pipe | the handler, wait, the reaper of process 1 | some of the `run()` functions |
| OAuth2, `src/oauth2.rs` | codes, tokens, clients under a lock each | register, authorize, token, validate | all server gateways, before their own dispatch |
| CORS, health, errors: `src/cors.rs`, `src/health.rs`, `src/error.rs` | none | headers and status of every answer | each gateway's dispatch, in its own order |
| JSON-RPC, command line, metrics | none, or counters | pure | everywhere |

What is hard here, and what makes each part correct:

* **Session table.** Guards are dropped without a lock, acquire() is two atomic
  increments under a shared lock, the gauge and the cleanup follow the unlock.
  Correct: the counter is the number of guards, an idle close or a drain never
  takes a session from a holder, the child is killed once.
* **Stateful gateway.** A request leaves futures behind (timer, drain) that act
  on what it saw earlier; timers are disarmed by a generation. Correct: nobody
  in service loses its session except to a DELETE's deadline, every idle
  session has a timer, every session ends, a session has one stream.
* **Relay of a session.** Requests are written before their ids are registered,
  the child answers in any order or dies, the session may be removed;
  notifications wait for the handshake in one buffer and for the stream in
  another. Correct: answers reach who asked and are lost in one window only,
  notifications keep their order and are lost only where a buffer is full.
* **The table's lock and the pipes.** A handler writes to its child with the
  table's lock held. Correct: children that read when their output is taken
  make no handler, of whatever session, wait for ever.
* **Child bridge.** Locks, pipes and signals: whoever holds stdin's mutex may be
  blocked on a full pipe; two threads and every writer may mark the child dead;
  as process 1 the gateway reaps its child twice. Correct: kill() ends the
  process, Drop returns, the dead flag does not lie, the exit code is found.
* **SSE and WebSocket.** Bounded channels with try_send, a hand-over from early
  buffer to broadcast, removal by the relay or by the client's own task; ids of
  clients that collide. Correct: no gaps, exact gauges, answers come back to
  who asked, with its id, once.
* **Stateless gateway.** Overlapping permits, a handshake on the client's
  behalf, batches, timeouts. Correct: exact permits, body after handshake,
  complete replies unless time was up, no child left
  but where the code cannot let go of it.
* **What comes in.** Chunks and reads cut streams anywhere; calls to the OAuth2
  server overlap between its locks while codes and tokens expire; signals run
  their handlers on any thread; each gateway applies CORS, OAuth2, health and
  custom headers in an order of its own. Correct: cuts change nothing, a code
  buys one token, a token is good to its last moment, no signal is slept
  through, an allowed page reads every answer.
* **Client modes.** What the parent writes before the server answered the
  initialize is kept and POSTed later, by whoever saw the answer; the parent may
  not initialize at all, and then the gateway does. Correct: handshake first,
  every line POSTed once and in order, answers only to lines, the session named
  in every request.

The full list of what a test would hardly reach is under `hazards` in
`PROJECT.json`, each at its line.

## 2. The modules

| module | models | kind |
|---|---|---|
| `SessionManager` | `src/session.rs` | the table, lock by lock |
| `SessionLifecycle` | what the table promises | abstract specification |
| `StatefulGateway` | handlers, timers, drains of `stateful_http.rs` | EXTENDS `SessionManager`: every step is a handler step, a table operation, or both |
| `StatefulRelay` | `SessionData`, `forward_and_respond()`, `relay_loop()`, the GET stream | one session in detail, what `StatefulGateway` has as `BeginWrite`, `EndWrite`, `Respond` |
| `TableLock` | the same handlers, seen only at the places where they can wait | composes the table's lock, `child.rs`'s mutexes and both pipes |
| `ChildBridge` | `src/child.rs`, the reaper of `src/signal.rs` | one child and its threads |
| `StdoutCodec` | `src/codec.rs` | bytes in, messages out |
| `SseGateway`, `WsGateway`, `StatelessHttp` | the other server gateways | one each |
| `FrontDoor` | the dispatch of all four, `cors.rs`, `health.rs`, `error.rs` | one request, and the preflight before it |
| `OAuth2` | `src/oauth2.rs` | its calls, lock by lock, and a clock |
| `Shutdown` | `src/signal.rs` | the handler and wait() |
| `SseParser` | `src/client/sse.rs` | operator `Feed`, from text and chunk to events |
| `SseStream` | the same, incrementally | shown to agree with `SseParser` |
| `ClientInit` | the `InitPhase` machine both client modes hold | operators, no state |
| `HttpToStdio`, `SseToStdio` | the client modes, `src/client/http.rs` | use `ClientInit` and `SseParser` |
| `*Proofs` | | theorems about the module of that name; `ChildBridgeProofs` also about `StdoutCodec`, `EdgeProofs` about `HttpToStdio`, `SseStream`, `Shutdown`, `OAuth2` and `FrontDoor` |
| `MC*` | | the instances for TLC |

### SessionManager and SessionLifecycle

A *task* is a thread or future that calls the table; it holds at most one
`SessionAccessGuard`, as every handler does. A section under the `RwLock` is one
step (`Create`, `BeginDelete`, `CompleteClose`, `TryDrainClose`, `Clear`). The
exception is acquire(): its read lock lets other readers and guard drops run
between `fetch_add` on the count (`AcquireCount`) and on the generation
(`AcquireBump`), so these are two steps, and `WriteLockFree` keeps writers out.
try_idle_close() is a check under the read lock (`IdleCheck`) and a second one
with the removal (`IdleClose`, `IdleAbandon`). After the unlock come the gauge
(`SubGauge`) and the callback per session (`RunCleanup`). `closedBy` and
`cleaned` are history: which operation removed the session, how often its
callback ran. A session once removed keeps its counter, as the `Arc` in a guard
does. A UUID is never drawn twice.

`SessionLifecycle` says the same without locks, counters or generations: enter
only an active session, *retire* only one with nobody inside, *evict* on
record, dispose once. `ImplementsLifecycle` instantiates it with the holders
read off the guards and "Disposed" read off `cleaned`.

### StatefulGateway

`step` is the program counter of each request's handler; its timer and drain
task are tasks of their own (`<<r, "http">>`, `<<r, "timer">>`,
`<<r, "drain">>`). `SpawnChild`/`CreateSession`/`EnterNew` are
handle_post_initialize(), `PostExisting` and `GetStream` acquire() in the other
paths. The exchange with the child is three steps: `BeginWrite` enters
with_session(), which holds the table's lock for reading as long as the child
takes for what is written (`EndWrite`, without a deadline), so that whoever wants
the lock for writing waits for `NobodyWrites`; `Respond` is the answer, or
RESPONSE_TIMEOUT. (That readers queue behind a waiting writer is in `TableLock`.)
`DropBeforeTimer`/`CheckCount`/`ArmTimer` are spawn_idle_timer_if_needed() with
its two separate read locks,
`ClaimStream`/`TakeReceiver`/`EndStream`/`Release` the GET stream, `Delete`/
`DrainPoll`/`DrainTimeout` DELETE. `FireTimer` may happen at any moment, since
nothing relates the clock to the other threads. A client can name only sessions
whose id it was sent (`known`); other ids end in 404 and change nothing.
Nothing in the gateway calls clear(), so no step here does.

### StatefulRelay

`WriteMessage` takes one message to the child, `WritesDone` decides between 202
and registration, `RegisterPending` enters one id, `Collect`, `Disconnected` and
`Deadline` are the polling loop. The relay thread routes (`RouteResponse`: the
entry is removed, then try_send) and fails what is pending when the child is
gone (`RelayReadError`, then `FailPending`). The child (external) answers what
it read in any order or dies. What is pending is failed in any order, since
the code drains a `HashMap`. A client uses an id for one request of a session
only (`IdsUsedOnce`), as JSON-RPC asks of it: with the same id twice the second
registration overwrites the first, and answers go to the wrong POST.

The session is opened by the POST of its initialize (`Opener`), and the other
POSTs and the stream can start only when that one is answered, since the client
has no session id before. `RouteNotification` is route_notification(): into the
buffer, whose oldest goes when it is full, until the answer to the initialize
is routed, which flushes it (mark_init_done()), and into the stream's channel
after that, where the newest is dropped and counted when it is full. A stream
that has gone takes its receiver along, so what is flushed or sent then is lost.

### TableLock

Handlers stop only where they can wait: `MayRead` is the readers' side of a
`std::sync::RwLock`, behind which readers queue once a writer waits
(`WaitToWrite`), `TakeStdin` the mutex of a child's stdin, `WriteToChild` the
pipe. What cannot block, the timers and the counters, is left to
`StatefulGateway`. A child reads on when it has printed what it owes, and can
print only if the relay thread took what was there; the deaf one (`Moods`)
need not.

### ChildBridge and StdoutCodec

The state is the process, its ends of the pipes, the stdin mutex and who holds
it, the pipe, the dead flag and exit code, and a program counter for every
writer, killer, thread, consumer and the Drop. The wait thread sets the flag
and stores the code in two steps. A writer holds the mutex while the pipe is
full. The process ends (`how`) by itself or by a signal, and as process 1 the
gateway's SIGCHLD handler may reap it before the wait thread does, whose wait()
then fails. `Natures` lists the sets of faults an initial state may choose
(`prone`): "spew" is output the codec rejects, "deafen" a stdin closed by the
child, "stop" a consumer that stops reading. Messages are counted, not named.

`StdoutCodec` is the reader's inside: `Fill` is what fill_buf() returns, any
cut of any output, `TakeLine`, `TakePart` and `Eof` the arms of
read_line_raw(), `HandleLine` read_message()'s verdict on a line. A byte is one
of six kinds, enough to make a line blank, a message, junk or no UTF-8, with
and without a carriage return. `CodecIsExact` compares with a definition that
knows nothing of buffers: the lines of all that was printed, told apart by where they start.

### SseGateway, WsGateway, StatelessHttp

*SSE*: a message is its number in the child's output, an event a message with an
id, so that order, gaps and ids can be told. Registration with the drain of the
early buffer is one locked step (`Register`), the gauge another (`CountClient`);
broadcast is one step that sends, updates `pressed` and removes those overdue.
*WebSocket*: the mux and the client map have separate locks, so `Unmangle`
(looks up and removes the id) and `Deliver` are two steps, as are `RemoveClient`
and `PurgeClient`. The early buffer keeps only its length.
*Stateless*: a body is a sequence of messages, a line of output a sequence of
them (a batch has several); `TakePermit`, `RefusePermit` and `Release` move the
counter as fetch_add and fetch_sub do; the handshake is `SendInit`, `BufferLine`
until the answer comes or `InitFails`, and `SendInitialized`; then `ForwardNext`,
`CollectLine`, `CollectEnds` (or `AcceptResponses`, the 202 for a body of
responses), `Kill`, and `Release`, which drops the child before the permit. Of
the bridge it keeps what can hold a handler. A write needs a child that reads, or
one that is marked dead. Such a child has exited, or is "garbled" (the codec gave
up) or "lost" (its stdin or first process is gone) and runs on, and then kill()
may leave it alive (`KillLeaves`). Drop joins threads (`DropReturns`), of which
the stdout reader does not end with a line for a full channel (`ReaderSpins`).

### FrontDoor, OAuth2, Shutdown

*FrontDoor*: a configuration (`door`) and what a web page wants to send
(`page`); if a browser must ask first, the preflight goes through the same
dispatch and decides whether the page's request follows (`Proceed`). `Stages`
is the order in which a gateway consults health, OPTIONS, OAuth2 and MCP, which
differs between the Streamable HTTP gateways and the others; `Built` and `Reply`
differ in whether the custom headers are applied. The headers of an answer are
a set of names, each with where it is from: the gateway itself, or the place in
the list of custom headers. Values and the order of different names are left
out, so apply_custom_headers() is what its loop comes to: the last custom header
of each name, and of the rest what no custom header names. The MCP side is
reduced to
which error it ends in; in the SSE gateway the messages of a batch are written
one by one (`WriteMessage`).

*OAuth2*: a call to the server is named by what it will be given (a client id,
a code, a token), so ids that are drawn at random never collide. Registration
and authorization are a check and a store, redeeming takes the code out under
one lock (`held` is what it took), checks it without any, and issues a token
under another; the lazy cleanups are part of the steps that run them. `Tick`
lets time pass between any two. The URI is compared in the form each side has
it in: what came through a query is not decoded, what came in a form is.

*Shutdown*: the handler of each signal is `Steps`, a compare-exchange and a
write to the pipe; wait() looks (`Check`), blocks (`ReadPipe`), looks again
(`Woken`).

### HttpToStdio, SseToStdio, ClientInit, SseParser, SseStream

Both client modes hold the same handshake, so it is stated once:
`HandleStdin` is handle_stdin_message(), `HandleResponse` what
handle_response_messages() and handle_sse_event() do with an answer. A message
is its type and the number of its line, which its response carries too.
`SseParser` keeps the text since the last blank line as a sequence of tokens;
`Feed` returns the events of the blocks that are complete. `SseStream` is the
parser as it is written: the line buffer with what feed() finds in it, "\n"
before "\r", a "\r" at the end kept for the next chunk, and the two ids.
`NextLine` is one turn of the loop of feed(), `Drained` all of them.

*HTTP*: `ReadLine` is the stdin thread, `TakeLine`, `Post`, `Receive` and
`ReceiveError`/`ConnectionBreaks` the task, which does one thing at a time;
`level` tells the POST of a line from the follow-ups, whose replies are treated
differently. `ServerReplies` answers with any of the forms the code tells apart:
JSON, SSE (whole, or cut off before the last blank line), no declared type,
nothing, an error. Any of them may carry the session id, which the client keeps
(`sid`) and `Post` puts into the next request. `BeginDelete`/`Exit` are wait()
and the DELETE, which may go out between any two steps of the task. `got` is
history: the messages that were parsed out of replies.
*SSE*: the stream's task is `ReadBodyLine`, `HandleEvent`, `PostFollowUp`,
`StreamEnds`; the task of stdin `TakeLine`, `PostLine`, `DropLine` (after 200
looks for an endpoint). Both POST at the same time.

## 3. The runs

| run | instance | shows |
|---|---|---|
| `MCSessionManager` | 2 ids, 3 tasks, 2 sessions | counters, gauge and cleanup exact; no retirement under a holder; implements `SessionLifecycle` |
| `MCStatefulGateway` | 2 ids, 3 requests of all methods, 2 sessions, fairness | `InFlightIsSafe`, `StreamsExact`; without streams `EverySessionReaped`, and `DeleteCloses`, unless a write never ends |
| `MCStatefulRelay` | the opening POST and two more with a batch of two, a request, a notification; 2 notifications of the child, buffers of 1; the session may be removed | `AnswerIsOwn`, `DisconnectedOnlyIfClosed`, `DiscardedOnlyUnregistered`, `NotificationsInOrder` |
| `MCTableLock` | 2 POSTs of two messages to one session or to two, a DELETE; pipes of 1; one child may be deaf | `NobodyStarves` |
| `MCChildBridge` | 2 writers, 2 callers of kill(), pipe of 1, channel of 1; a good child, one whose consumer stops, one that spews and deafens | `DeadIsTrue`, `KillKills`, `ExitCodeIsFound`, `DropReturns` |
| `MCSseGateway` | 2 clients, channel and buffer of 2, 5 messages | `NoGaps`, `GaugesExact`, `PressedIsBehind` |
| `MCWsGateway` | 2 clients with the same 2 ids, channel and buffer of 1, 2 mangled ids, 3 outputs | `AnswerIsAskers`, `PendingIsOwned`, `WsGaugesExact` |
| `MCStatelessHttp` | 4 POSTs on one permit (a handshake on the client's behalf, one of its own, a response, a notification), a channel of 1 line, batches | `PermitsExact`, `ReplyIsComplete`, `EveryPostEnds` |
| `MCHttpToStdio` | parents that initialize, do not, or do so too late; channel of 2; all forms of reply; servers with and without sessions | `LinesInOrder`, `HandshakeFirst`, `AnswersAreForLines`, `SessionIsNamed`, `EveryLineIsPosted` |
| `MCInputs` | five parts, each by itself: 144 configurations (custom headers that stand twice, or bear the name of one of the gateway's own) by 120 requests; 6 OAuth2 calls and a clock of 3; all texts of 7 tokens in chunks of up to 2; all outputs of 6 bytes in all cuts; 3 signals | `CorsIsExact`, `CustomAsAsked`; `CodeBuysOneToken`, `AdmissionIsExact`, `HonestIsServed`; `ChunkingIsInvisible`; `CodecIsExact`; `SignalIsHeard` |
| `MCStatefulGetLeak` | with GET | a session left without a timer (section 6) |
| `MCSseToStdio` | initialize, notification, request | the endpoint event is never understood |

**Exact exceptions.** Where the code does less than one would wish, a property
names when, so that it still says that there is no other case. `KillKills`
excepts a caller that waits for the stdin mutex while its holder is blocked on
a full pipe, and a child that ignores SIGTERM and was marked dead for its
pipes; `ExitCodeIsFound` three windows; `DiscardedOnlyUnregistered` the window
before registration and handlers that are over; `DisconnectedOnlyIfClosed` a
removed session and a batch larger than RESPONSE_CHANNEL_CAP; `NobodyStarves` a
deaf child that is written to; `EverySessionReaped` and `DeleteCloses` a write
that never ends (`Jammed`, for ever); `EveryPostEnds` the two places of `Held`, a
write, and the drop of a child that would not go or of a reader that spins;
`PendingIsOwned` clients the relay dropped;
`ReplyIsComplete` what stands behind the handshake's answer on its line;
`HonestIsServed` a URI that was sent percent-encoded; `ChunkingIsInvisible` a
bare "\r"; `CorsIsExact` the answers each gateway sends past its headers, and a
CORS header configured as a custom one; `CustomAsAsked` two answers that add the
custom headers without replacing what has their name (what it asks for is what
both documents ask for, not what the code does; section 6);
`EveryLineIsPosted` a POST without an answer and an initialize without a
response. With an exception taken out TLC finds the case.

**Bounds, and why they are enough.** Three tasks give a writer, an acquire
half-way and another guard of the same session; a third session would only
repeat the second. A generation bound of 1 (`MaxGen`) in `MCSessionManager`
still has stale timers, because `IdleCheck` may hold a generation while acquire
bumps it; in the gateway runs the bound of 9 is never reached, since each
request bumps once. Three requests are a creator and two that overlap, each
with its timer and drain task, so that a stale timer, a newer request and a
DELETE meet; with two sessions a write to the one child keeps the other session
from being closed; what the gateway's invariants say of any number of requests is
proved. Two clients suffice for every pairwise interference in the
broadcasting gateways; five SSE messages exceed buffer plus channel, so both
fill. With a pipe of 1 one of two writers blocks, so that kill(), the pipe and
the mutex meet. Real capacities (256, 64, 1024) only postpone the full state.

The four bodies of `MCStatelessHttp` are one per way through a handler. Its channel
of one line is full with one and has a reader that spins with two, as 64 and 65
would; no child of these bodies has more than three messages to print.

The parents of `MCHttpToStdio` write up to five lines: with a channel of 2, one
in the task and one in the queue, every place a line can wait at is full at some
time.

The relay run's channel holds its largest batch (`RespCap` 2), so that a POST
that ends without its answers has no excuse but a removed session; what a batch
above RESPONSE_CHANNEL_CAP may lose is excepted by the property, and proved for
every capacity. The buffers for notifications hold one of two.

In `MCInputs` one part moves and the others rest in an initial state, so the
parts cost the sum and not the product of their states. Its limits lie inside
what is enumerated: with MaxMessage 2 and MaxBuffer 4 six bytes make lines on
both sides of each limit with bytes around them; seven tokens hold two events
and a line cut at every place; a code lives 2 and a token 1 of the clock's 3,
so that each expires while another call is between its locks.

Symmetry is used only in runs without temporal properties.
`CHECK_DEADLOCK FALSE` is said where the instance ends: each request, client or
message exists once, so a behaviour in which all are over has no next step.

**Fairness.** Threads and spawned futures that can run do (weak fairness of
their steps); timers fire and deadlines pass (`FireTimer`, `DrainTimeout`,
`Respond`, `InitTimesOut`, `CollectEnds`, which the code bounds with real time).
Clients and children owe nothing: no request has to arrive, no stream to end, no
child to read, print or exit, except that one which does not ignore SIGTERM obeys it and that SIGKILL
ends it. So a write to a child, which has no deadline anywhere, is not fair:
`EndWrite` may never come, and the writes of `StatelessHttp` are fair only to a
child that has exited (write_message() looks at the dead flag before it writes;
once it waits it does not see it). In `TableLock` alone a child must do something,
print what it has and read on, unless it is deaf: that is what the property is
about. The remote
server of the client modes need not answer: the HTTP client has no timeout.
No action is strongly fair: whoever waits for a lock is disabled while another
holds it, so that a blocked holder really starves those behind it.

## 4. What is proved

All theorems hold for every value of the constants: any finite set of sessions
and tasks (any set of requests in the gateway, finite because its tasks are),
any number of writers, calls, clients or signals, any limit, capacity and life
time. They assume the named `ASSUME`s of the modules: finiteness where
something is counted, limits in `Nat`, a "nobody" that is nobody, and that the
tasks of the gateway are the three of each request.

**The table** (`SessionManagerProofs`). The inductive invariant is

    IInv == TypeOK /\ Bookkeeping /\ CountIsHolders /\ GaugeExact
            /\ CleanupOwedOnce /\ RetiredIsQuiet

`RetiredIsQuiet` (a session retired by timer or drain has no holder) needs
`CountIsHolders`, because the code looks at the counter and not at guards.
`GaugeExact` needs that the batches of different tasks are disjoint, which is
part of `CleanupOwedOnce`; and the non-negativity of the gauge in `TypeOK`
needs `GaugeExact`. `Bookkeeping` ties each program counter to the batch, guard
and argument it needs (a task that bumps has a guard; a non-empty batch means
gauge or cleanup is pending). `StepCases` reduces [Next]_vars to the cases,
`RemovalShape` states once what the four removals share, then one lemma per
conjunct (`TypeStep`, `BookkeepingStep`, `CountStep`, `OwedStep`, `QuietStep`,
`GaugeStep`). From it: `TypeCorrect`, `CounterCorrect`, `GaugeCorrect`,
`CleanupCorrect`, `RetirementIsSafe`, and `LifecycleImplemented`, the refinement
of `SessionLifecycle` (`RefinementStep` maps `AcquireCount` to `Enter`,
`DropGuard` to `Leave`, idle close and drain to `Retire`, forced close and
clear to `Evict`, the callback to `Dispose`, the rest to a stutter).

**The gateway** (`StatefulGatewayProofs`). `HandlersUseTable` shows that every
behaviour of the gateway is one of the table, so that all theorems above carry
over. `GwIInv` adds `GwBookkeeping`: a handler inside its session holds its
guard, a streaming handler has taken the receiver, nobody clears the table.
From it `GatewayTypeCorrect`, `StreamsCorrect` (one stream per session,
active_clients counts them) and `ServiceIsSafe`: a request in service loses its
session to nothing but a DELETE's deadline.

**The relay of a session** (`StatefulRelayProofs`). `RoutingIInv` follows an id
from the body to the answer. `PendingFits`: an id is registered only for the
handler that has it to do. `AskedOnce`: a request with the child, or its answer
on stdout, is there once, was written, and is still registered if its handler
waits for it, unless the session was removed. `ChannelsFit`: a channel holds
one answer to each of some ids no longer registered, from its own POST or from
fail_pending_requests(), and never more than its capacity. `NothingLost`: an id
that is awaited is registered or its answer is in the channel; this needs a
count (a channel that lacks an answer to an id of the batch has room), and is
the only place where the size of the batch matters. `AnswersAreOwn` is part of
the invariant. `DisconnectIsExcused` follows since a handler sees
"disconnected" only with nobody left to send, and by `NothingLost` with every
answer in hand; `DiscardsAreExcused` from `AskedOnce`: an answer for which no id
is registered was asked by a handler that has not registered it, or is over.
`NoticesIInv` does the same for notifications: `Seen` (received, in the channel,
in the buffer) and `Behind` (not read yet) split what was printed at one place,
`routed`. In the order they are in nothing can overtake, and while the stream is
there the lengths add up with what both overflows took. That the flush of the
buffer drops nothing needs `FlushFits`: its capacity is not above the channel's.

**The child bridge** (`ChildBridgeProofs`). `DeadIsTrue` is not inductive: who
sets the flag is a writer, the reader or the wait thread, each for a reason of
its own. `BridgeIInv` adds those reasons. `StdinKept`: a wholesome child's
stdin is open while it runs, so no write to it fails; `WaiterKnows`: past its
wait() the wait thread has seen the end and keeps what it saw; `EarlyEnds`: the
flag without the wait thread, or a kill() that is over, means that the child was
given up. `ExitCodeCorrect` is then a case split on the one action that reads
the code: a relay has come through its kill(), and each way through it is one
of the windows the property names.

**The codec** (`ChildBridgeProofs`). `CodecIInv` finds the buffers in the
output: what was printed is what was handled, the line so far and what is
available (`BufferFits`), and the counters are those of the lines that start
before `Handled`, none of them fatal (`LinesHandled`). Where the reading stopped
it says at which line (`LineOverflows`, `BrokenAt`). Three lemmas carry a
step: read_message()'s verdict on buffer and bytes is the one the property gives
of the line in the output (`LineEffect`), what is printed later changes no line
that has ended (`LaterBytes`), and one more line is one more in one of the three
counts (`OneMoreLine`). `CodecCorrect` is then about the first fatal line
(`FirstFatal`). Lines are cut out of sequences without recursion, so the theorem
is for any output, any cut, and any limits with `MaxBuffer` above 0.

**OAuth2** (`EdgeProofs`). `OIInv` says of each table what it holds
(`CodesExact`, `TokensExact`): a code that was given is in the map until it is
taken or has expired, whoever took it has what was stored, and a token that was
given is in the map until it expires. `StepsFit` ties each handler between two
locks to what it has proved so far. `CodesAreSingleUse` follows because a code
in the map was taken by nobody; `AdmissionCorrect` and `HonestCorrect` because
the lazy cleanups remove only what has expired, so that whether they ran makes
no difference. The verdicts themselves (`AdmissionIsExact`, `RefusalsExact`)
are part of the invariant: they speak of the past, and the past is kept in
`answer`.

**Signals** (`EdgeProofs`). `SignalIInv` adds `MarkedFirst`: a byte in the
pipe means that the flag is set. With the two steps of the handler swapped that
fails, and wait() returns without a signal.

**The SSE gateway** (`SseGatewayProofs`). `NoGaps` says how each event of a feed
(what was written to a client and what is in its channel) follows the one
before, so a step that appends must know how the feed ends: `FeedsAreCurrent`,
with the last message and the current event id, unless the client missed one.
For the first client that rests on `BufferIsFirst`: until somebody registers,
the early buffer is everything printed so far, as long as it has room.
`PressedIsBehind` follows, since a client under pressure did not get the last
message and no feed is ahead of it. The gauges are cardinalities of sets the
tasks' places tell apart: `GaugesCount` says whom each counts (`Served`,
`Left`), and a client moves from one to the other exactly where a counter moves.

**The WebSocket gateway** (`WsGatewayProofs`). The gauges are proved as above,
while the relay runs. `AnswerIsAskers` rests on two conjuncts. `IdsAreUnique`: no
two messages on their way to the child have one mangled id, and a pending id
leads back to who sent the message. `AnswersAreRouted`: an answer that was looked
up is its asker's, and its id is out of the map, so that no second lookup can
find it; an answer of any other request has another id. A feed grows only at
its end, and writing an event only moves it (`HandOver`). `PendingIdsAreOwned`
is inductive with `TasksFit`: a task that finds its client gone from the map
was passed by the relay, which took the ids along.

**The stateless gateway** (`StatelessHttpProofs`). `PermitsIInv` counts who holds
a permit from the handler's step alone; `HandlerEffect` shows that each way
through a handler takes one and gives one back. `RepliesIInv` is about
complete replies. The counter of the code knows how many answers came, not
whose. `AnswersFit` is what makes it enough: the child answers what is in its
stdin and nothing twice, so the answers collected and those in the lines are
disjoint, and as many distinct answers as the body has requests are the answers
to all of them (`Counting`). That none of them is the answer to the synthetic
initialize is `HandshakeFits`, and it is read in another step than the rest:
`NothingCollected`. That buffered and collected messages are what was
read, in its order, is an equation over `FlattenSeq`; the one fact needed of it,
`FlattenAppend`, is proved by least element over the library's definition.

**The HTTP client** (`EdgeProofs`). `LinesInOrder` speaks of the sequence
posted, outbox, queue, channel, unread, in which an action of the task only
moves the border between two neighbours: each step is a lemma about two
sequences that are equal. The one step that inserts ("initialized" behind a
synthetic initialize, the initialize itself in front of a line) changes no line
(`Inserted`, `Across`). Which neighbours are empty when, so that nothing is
moved past something else, is `PhaseFits` (a queue exists only while the
initialize waits) and `LevelFits` (the outbox is empty when a line is taken).
`HandshakeGoesFirst` is `PhaseFits` seen from the server. `SessionFits`
ties what the server has told, what the client keeps and what is under way;
`SessionStaysNamed` follows for the POSTs and the DELETE.
`AnswersReachLines` needs to know what comes out of a reply. `StreamsAre` reads
the streams the server writes through the parser, the unfinished one too, so that
`ParsedIs` can say that a reply comes to the answer to what was asked at most,
perhaps behind a notification, and `ShownIs` that the answer to the gateway's own
initialize is kept back. `ExchangeFits` ties the reply to the last POST, and
`AnswersFit` puts every answer on stdout behind an earlier POST of its line. As
lines are POSTed in order (`PostedAre`, from `LinesInOrder`), an answer that is
added is to a later line than all before it. No fact is taken of `FlattenSeq` and
`RemoveFirst` but what the library's definitions give.

**The event stream** (`EdgeProofs`). `ChunkingIsInvisible` compares the parser,
which forgets the text line by line, with `Feed` of the whole text, which knows
no parser. `ParserIInv` says where the two meet (`ReadTo`): there is a place of
the text such that what is before it is in the events that were delivered and in
data_buf and event_type, as `Feed` has it, and what is behind it is line_buf.
Between chunks no line of line_buf is complete. `IdsFit` is the part about
last_event_id. That `Feed` of a longer text can be computed from the shorter one
rests on `FlattenConcat`: values, events and line ends of two texts joined at a
line end are those of the first and then those of the second (`ValuesBehind`,
`EventsBehind`, `NormalBehind`). One turn of the loop then moves the place by one
line (`TurnReads`): to the end of a line, which adds a value, or over a blank one,
which adds an event (`LineParses`, `BlankParses`). The loop is a recursive
function; that it exists (`TurnsExist`), and that its turns are enough, as each
takes a token at least (`LoopKeeps`), is shown by the least number for which it
would fail (`SetInduction`). `ChunksAreInvisible` is for any set of tokens, any
text and any chunks; the text is `Proper`, with no "\r" that ends a line by
itself, because the code does not treat those alike in every cut (section 6).

**The front door** (`EdgeProofs`). `DoorIInv` adds `PassedFits`: what a request
has come past. A preflight that is beyond the stage of OPTIONS met a gateway
without CORS, so whatever answers it later grants nothing and must not
(`LaterIsRight`). `RightGrant` and `RightCustom` state what the two properties
ask of one answer, and `RightReplies` reduces each action to them; then one
lemma for each way a gateway makes its headers (`AppliedIsRight`, from
`AppliedOnce`, and `OwnIsRight` for those without custom ones), for any list of
custom headers, and one for each action. `CorsCorrect` and `CustomCorrect` are
for every configuration and every request.

**Only model-checked.** Liveness (`EverySessionReaped`, `DeleteCloses`,
`EveryPostEnds`, `KillKills`, `DropReturns`, `EveryLineIsPosted`,
`NobodyStarves`) needs fairness and ENABLED, which the prover does not handle.
The other properties of the passing runs are theorems, but for those. The
induction theorems of the library take an operator as a parameter, which no
installed prover instantiates; the few inductions there are (`FlattenSeq`, the
blank line before a place, the loop of feed()) are made with the least element of
the set of counterexamples, over definitions that are recursive functions.
`IdleSessionHasTimer` and `EndpointDiscovered` are false (section 6).

## 5. What is not modelled

* Text: messages are numbers, ids, kinds of bytes or model values. JSON, HTTP
  framing, header and query parsing are left out, as are the OAuth2 metadata
  and requests with parameters that are missing.
* Which check of a request fails: validation is the error it ends in
  (`FrontDoor`), and a permit given back (`Reject`).
* Real time: a timeout may pass at any moment once its start is reached. A timer
  that fires *too early* relative to the clock cannot be seen. Only `OAuth2` has
  a clock.
* The executor and its blocking pool: each handler is its own fair thread. The
  stateless gateway runs its blocking exchange inside an async task
  (`stateless_http.rs:720`), so with enough slow children that assumption is the optimistic one.
* Composition is by pairs: `StatefulGateway` over `SessionManager`, `TableLock`
  over the waiting of both and the bridge. A gateway with the full
  `ChildBridge` inside has too many states, and no more hazards that were found.
* Client modes: an error whose body is JSON-RPC (`client/http.rs:348-375`) and an
  initialize refused by a JSON-RPC error without a session id, which are no replies of
  `ServerReplies`; the rewriting of the protocol version, the stdin channel of the
  SSE client (it adds only room), resolve_endpoint_url().
* In `signal.rs`, request_shutdown(), the watcher of stdin, the watchdog and
  is_force_exit(); in `client/sse.rs`, `ReconnectState` and `OutgoingBuffer`;
  shutdown() of the stateful gateway: nothing in the program calls them.
* The command line and the entry point: a pure function of the arguments, run
  once.
* Keepalives, ping and pong, metrics and logs, except for the gauges and
  counters a property is about.

## 6. Where code and documentation differ

Shown by a run:

* **A session without a timer** (`MCStatefulGetLeak`). disconnect_sse_stream()
  is documented to spawn "an idle timer if needed" (`stateful_http.rs:1114`) but
  runs while its own guard still counts, so it never does; and a GET answered
  409 bumps the generation, which disarms the waiting timer, and arms none.
* **An SSE client that sees no event** (`MCSseToStdio`). read_body_line() strips
  the newline and run() feeds the bare line to the parser (`sse_to_stdio.rs:651`),
  which ends a line only at a newline (`client/sse.rs:113`): no event is ever
  dispatched. With the newline back in `ReadBodyLine` the property holds.

An exact exception of a property:

* Requests are written to the child (`stateful_http.rs:899`) before their ids
  are registered (`:931`): an answer in between finds nobody (`:256`) and is
  thrown away (`DiscardedOnlyUnregistered`).
* A batch larger than RESPONSE_CHANNEL_CAP loses answers, which its handler
  reports as "relay thread died" (`stateful_http.rs:971`,
  `DisconnectedOnlyIfClosed`).
* with_session() holds the table's read lock during that write: PRD.md:171
  speaks of deadlock prevention, but one child that does not read blocks every
  writer of the table, all readers behind it, and its own kill()
  (`NobodyStarves`). While it does no session is reaped, though PRD.md:93 has a session
  timeout, and none that was deleted is closed (`EverySessionReaped`, `DeleteCloses`).
* kill() takes the stdin mutex before any signal (`child.rs:322`), which a writer
  blocked on a full pipe holds; and a child marked dead by the codec or by EPIPE
  gets SIGTERM only (`KillKills`).
* The stateless gateway's timeouts do not cover its writes (`stateless_http.rs:547`,
  `:586`, `:606`): a child that does not read keeps its handler, and the permit, for
  as long as it likes. So does one that kill() left alive, since Drop waits for it
  (`child.rs:454`), and one whose output filled the channel after the last response
  was taken: the reader has nobody to give it to, and Drop joins it (`EveryPostEnds`).
* "Child exit -> gateway process exit with child's exit code" (PRD.md:1102): not
  between the reaping and the store, nor under the reaper of process 1, nor for
  a child that kill() had given up (`ExitCodeIsFound`).
* PRD.md:345-352 has custom headers on all responses, DIVERGENCES.md:119-122 (D-019)
  on a list of them, mode by mode: they contradict each other, and the code follows
  neither. The GET stream of the stateful gateway has them (`stateful_http.rs:1100`),
  which D-019 does not list, as have the SSE gateway's errors; POST and DELETE of the
  Streamable HTTP gateways and their errors, raw answers, and those of OAuth2 have
  none, against the PRD. `CustomAsAsked` demands them where both documents do, and
  that an answer with any has all of them, once, "last-wins" (PRD.md:359). Not so
  in two answers: a Streamable HTTP health adds them to what is there, which doubles
  Content-Type and Vary, and the 101 of the WebSocket gateway does the same.
* PRD.md:823-827 applies CORS "before route handlers": OAuth2's answers and the
  raw errors of the SSE and WebSocket gateways have no CORS headers, and their
  health endpoint answers the preflight itself (`CorsIsExact`).
* OAuth2 compares a decoded redirect_uri with one that is not: an encoded one
  never matches (`HonestIsServed`).
* A bare "\r" ends a line or not depending on what else is in the chunk
  (`client/sse.rs:111`, `ChunkingIsInvisible`).
* Before the reply to the initialize, a signal sends the DELETE without a
  session id: the server keeps the session (`SessionIsNamed`). The DELETE has no
  timeout.
* A client the relay dropped can leave an id behind (`PendingIsOwned`); messages
  behind the handshake's answer in one batch are lost (`stateless_http.rs:193`),
  and a partial result after the deadline is a complete 200 (`ReplyIsComplete`).

Seen while modelling, no run spent:

* "Second signal forces immediate exit" (`signal.rs:4-5`, `:45`): FORCE_EXIT is
  set and read by nothing. The SSE, WebSocket and stateless servers install a
  SIGTERM handler and never wait on it (`sse.rs:765`, `ws.rs:857`,
  `stateless_http.rs:696`), and the stateful run() returns without shutdown(),
  against D-011 and D-016. D-013's reconnection is not in run().
* The GET stream is said to end when the "channel closed / child died"
  (`stateful_http.rs:1437`), but its sender lives in `SessionData`: it goes on
  with keepalives. `has_sse_stream` (`:104`) is never reset and the receiver
  never returned: a client cannot reopen its stream.
* spawn_idle_timer_if_needed() reads count and generation under two locks
  (`:1218`, `:1223`): a timer can be armed with a newer request's generation.
* fail_pending_requests() misses ids registered after the relay saw the child
  die; those handlers wait for the deadline.
* The early buffer (256) and the endpoint event exceed a client's channel (256);
  client limits are checked under one lock and used under another.
* SSE: a 502 may follow a batch of which a part was delivered (`sse.rs:643`).
* WebSocket: a client's *response* is mangled too (`ws.rs:722`); the close frame
  may not be sent before process::exit().
* Stateless: an overlapping refusal can refuse a request below capacity (`:523`).
* SSE client: Ready is set before the kept lines are POSTed, so the task of
  stdin can overtake them (`sse_to_stdio.rs:234`); hidden by the finding above.
* Client modes: an initialize that is refused or not answered with a response
  leaves the phase waiting and every later line kept (`http_to_stdio.rs:209`);
  the end of stdin does not end the process; a reply to a follow-up without a
  content type is dropped, one to a first POST is parsed as JSON (`:542`,
  `:500`).

## 7. Plan

Every part of the program that keeps state or orders events is modelled, and the
safety properties the passing runs check are proved. What is left is a refinement
between what the SSE and the WebSocket gateway share (map, channels,
backpressure) and one abstract broadcaster, and whatever changes in the code.

New questions go into the instances there are where they fit, rather than into
runs of their own.

The modules are written for this: limits as constants with named assumptions,
one action per step of the code, invariants as named conjunctions, and
recursion as recursive functions.
