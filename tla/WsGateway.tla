------------------------------ MODULE WsGateway -------------------------------
(***************************************************************************)
(* The WebSocket gateway (src/src/gateway/ws.rs): one child shared by all  *)
(* clients, the multiplexer that gives every id a client sends a number of *)
(* its own and restores it in the answer, the relay, and the connection    *)
(* tasks, each of which reads frames and drains its channel in turn.       *)
(*                                                                         *)
(* The mux and the client map have a lock each: routing an answer and      *)
(* leaving take them one after the other.  A frame is one message with an  *)
(* id; a batch is several such, a notification leaves no trace here.  The  *)
(* child (external) may answer a request late, never or again.             *)
(***************************************************************************)
EXTENDS Integers, Sequences, FiniteSets

CONSTANTS
  Clients,      \* WebSocket connections
  OrigIds,      \* ids the clients use, the same for all
  MaxClients,   \* MAX_WS_CLIENTS
  ChanCap,      \* CLIENT_CHANNEL_CAP
  EarlyCap,     \* EARLY_BUFFER_CAP
  MaxId,        \* bound on the mangled ids
  MaxOut,       \* bound on the child's messages
  None          \* no entry, no message

ASSUME LimitsPositive ==
  {MaxClients, ChanCap, EarlyCap, MaxId, MaxOut} \subseteq Nat \ {0}
ASSUME ClientsAreFinite == IsFiniteSet(Clients)

VARIABLES
  conn,         \* where the connection's task is
  clients,      \* keys of Inner.clients
  early,        \* length of Inner.early_buffer, -1 once taken
  chan,         \* each client's channel
  pressed,      \* clients whose backpressure_since is set
  nextId,       \* IdMultiplexer.next_id
  pending,      \* IdMultiplexer.pending: mangled id -> client and id
  frame,        \* the mangled message the task is about to write
  inbox,        \* what the child was sent
  answer,       \* the answer the relay has looked up and not sent
  printed,      \* messages the child has printed
  relay,        \* "running", "closing", "exited" with the process
  active,       \* Metrics.active_clients
  disconnects,  \* Metrics.client_disconnects
  got,          \* history: what was written to the client
  dropped       \* history: clients the relay removed

wvars == <<conn, clients, early, chan, pressed, nextId, pending, frame, inbox,
           answer, printed, relay, active, disconnects, got, dropped>>

muxVars == <<nextId, pending, frame, inbox>>
metrics == <<active, disconnects>>

MangledIds == 1..MaxId
Owned == [client : Clients, orig : OrigIds]
Message == [id : MangledIds, kind : {"request", "response"}, from : Owned]
Note == [kind |-> "note"]
Close == [kind |-> "close"]
Answer(e, m) == [kind |-> "answer", to |-> e, of |-> m]
Answers == [kind : {"answer"}, to : Owned, of : Message]

ASSUME NoneIsNothing == None \notin Owned \cup Message \cup Answers

WsInit ==
  /\ conn = [c \in Clients |-> "new"]
  /\ clients = {} /\ pressed = {} /\ dropped = {}
  /\ early = 0
  /\ chan = [c \in Clients |-> <<>>]
  /\ got = [c \in Clients |-> <<>>]
  /\ nextId = 1
  /\ pending = [i \in MangledIds |-> None]
  /\ frame = [c \in Clients |-> None]
  /\ inbox = {}
  /\ answer = None
  /\ printed = 0
  /\ relay = "running"
  /\ active = 0 /\ disconnects = 0

Goto(c, from, to) ==
  /\ relay # "exited"
  /\ conn[c] = from
  /\ conn' = [conn EXCEPT ![c] = to]

Less(n, k) == IF n < k THEN 0 ELSE n - k
Without(S) == [i \in MangledIds |->
                IF pending[i] # None /\ pending[i].client \in S THEN None ELSE pending[i]]

-----------------------------------------------------------------------------
(* handle_ws_connect()                                                     *)

CheckLimit(c) ==
  /\ Goto(c, "new", IF Cardinality(clients) >= MaxClients THEN "refused" ELSE "checked")
  /\ UNCHANGED <<clients, early, chan, pressed, muxVars, answer, printed, relay,
                 metrics, got, dropped>>

Register(c) ==
  /\ Goto(c, "checked", "uncounted")
  /\ chan' = [chan EXCEPT ![c] =
       [i \in 1..(IF early < ChanCap THEN early ELSE ChanCap) |-> Note]]
  /\ early' = -1
  /\ clients' = clients \cup {c}
  /\ UNCHANGED <<pressed, muxVars, answer, printed, relay, metrics, got, dropped>>

CountClient(c) ==
  /\ Goto(c, "uncounted", "open")
  /\ active' = active + 1
  /\ UNCHANGED <<clients, early, chan, pressed, muxVars, answer, printed, relay,
                 disconnects, got, dropped>>

-----------------------------------------------------------------------------
(* The connection's loop, and handle_ws_message().                         *)

WriteEvent(c) ==
  /\ chan[c] # <<>>
  /\ Goto(c, "open", IF Head(chan[c]) = Close THEN "leaving" ELSE "open")
  /\ got' = [got EXCEPT ![c] = Append(@, Head(chan[c]))]
  /\ chan' = [chan EXCEPT ![c] = Tail(@)]
  /\ UNCHANGED <<clients, early, pressed, muxVars, answer, printed, relay, metrics,
                 dropped>>

NextIdAfter_Same == nextId
NextIdAfter == nextId + 1

\* A request or a response: whatever has an id gets a new one.
Mangle(c, o, kind) ==
  /\ nextId <= MaxId
  /\ Goto(c, "open", "mangled")
  /\ nextId' = NextIdAfter
  /\ pending' = [pending EXCEPT ![nextId] = [client |-> c, orig |-> o]]
  /\ frame' = [frame EXCEPT ![c] =
       [id |-> nextId, kind |-> kind, from |-> [client |-> c, orig |-> o]]]
  /\ UNCHANGED <<clients, early, chan, pressed, inbox, answer, printed, relay,
                 metrics, got, dropped>>

\* write_message(): a dead child ends the connection.
WriteToChild(c) ==
  /\ \/ /\ relay = "running"
        /\ Goto(c, "mangled", "open")
        /\ inbox' = inbox \cup {frame[c]}
     \/ /\ Goto(c, "mangled", "leaving")
        /\ UNCHANGED inbox
  /\ frame' = [frame EXCEPT ![c] = None]
  /\ UNCHANGED <<clients, early, chan, pressed, nextId, pending, answer, printed,
                 relay, metrics, got, dropped>>

\* The client closes or is gone, or the channel is closed.
Leave(c) ==
  /\ Goto(c, "open", "leaving")
  /\ UNCHANGED <<clients, early, chan, pressed, muxVars, answer, printed, relay,
                 metrics, got, dropped>>

-----------------------------------------------------------------------------
(* disconnect_client(): the map, then, if it was there, mux and metrics.   *)

Counts_Always(c) == TRUE
Counts(c) == c \in clients

RemoveClient(c) ==
  /\ Goto(c, "leaving", IF Counts(c) THEN "removed" ELSE "gone")
  /\ clients' = clients \ {c}
  /\ pressed' = pressed \ {c}
  /\ UNCHANGED <<early, chan, muxVars, answer, printed, relay, metrics, got, dropped>>

AfterDisconnect_Kept(c) == pending
AfterDisconnect(c) == Without({c})

PurgeClient(c) ==
  /\ Goto(c, "removed", "gone")
  /\ pending' = AfterDisconnect(c)
  /\ disconnects' = disconnects + 1
  /\ active' = Less(active, 1)
  /\ UNCHANGED <<clients, early, chan, pressed, nextId, frame, inbox, answer, printed,
                 relay, got, dropped>>

\* The relay takes S out: map, mux and metrics under the client lock.
DropByRelay(S) ==
  /\ clients' = clients \ S
  /\ dropped' = dropped \cup S
  /\ disconnects' = disconnects + Cardinality(S)
  /\ active' = Less(active, Cardinality(S))

-----------------------------------------------------------------------------
(* route_response(), broadcast_message(), close_all_clients()              *)

\* A lookup takes the entry out, so that an answer is routed once.
AfterLookup_Kept(i) == pending
AfterLookup(i) == [pending EXCEPT ![i] = None]

Unmangle(m) ==
  /\ relay = "running" /\ answer = None /\ printed < MaxOut
  /\ m \in inbox /\ m.kind = "request"
  /\ printed' = printed + 1
  /\ pending' = AfterLookup(m.id)
  /\ answer' = IF pending[m.id] = None THEN None ELSE Answer(pending[m.id], m)
  /\ UNCHANGED <<conn, clients, early, chan, pressed, nextId, frame, inbox, relay,
                 metrics, got, dropped>>

HasRoom_OffByOne(c) == Len(chan[c]) <= ChanCap
HasRoom(c) == Len(chan[c]) < ChanCap
Full == {c \in clients : ~HasRoom(c)}

\* As in the SSE gateway, the 30 s are longer than a registration.
Overdue == {c \in Full \cap pressed : conn[c] # "uncounted"}

Deliver(late) ==
  LET c == answer.to.client IN
    /\ answer # None
    /\ answer' = None
    /\ \/ /\ c \in clients \ Full
          /\ chan' = [chan EXCEPT ![c] = Append(@, answer)]
          /\ pressed' = pressed \ {c}
          /\ UNCHANGED <<clients, dropped, metrics, pending>>
       \/ /\ c \in Full /\ (late => c \in Overdue)
          /\ pressed' = IF late THEN pressed \ {c} ELSE pressed \cup {c}
          /\ DropByRelay(IF late THEN {c} ELSE {})
          /\ pending' = Without(IF late THEN {c} ELSE {})
          /\ UNCHANGED chan
       \/ /\ c \notin clients
          /\ UNCHANGED <<clients, chan, pressed, dropped, metrics, pending>>
    /\ UNCHANGED <<conn, early, nextId, frame, inbox, printed, relay, got>>

BufferEarly ==
  /\ relay = "running" /\ answer = None /\ printed < MaxOut
  /\ early >= 0 /\ clients = {}
  /\ printed' = printed + 1
  /\ early' = IF early < EarlyCap THEN early + 1 ELSE early
  /\ UNCHANGED <<conn, clients, chan, pressed, muxVars, answer, relay, metrics, got,
                 dropped>>

Broadcast(gone) ==
  /\ relay = "running" /\ answer = None /\ printed < MaxOut
  /\ early < 0 \/ clients # {}
  /\ gone \subseteq Overdue
  /\ printed' = printed + 1
  /\ chan' = [c \in Clients |->
               IF c \in clients \ Full THEN Append(chan[c], Note) ELSE chan[c]]
  /\ pressed' = Full \ gone
  /\ DropByRelay(gone)
  /\ pending' = Without(gone)
  /\ UNCHANGED <<conn, early, nextId, frame, inbox, answer, relay, got>>

\* The child ended: a close frame for whoever has room, then the process exits.
CloseAllClients ==
  /\ relay = "running" /\ answer = None
  /\ relay' = "closing"
  /\ chan' = [c \in Clients |->
               IF c \in clients \ Full THEN Append(chan[c], Close) ELSE chan[c]]
  /\ pressed' = {}
  /\ DropByRelay(clients)
  /\ pending' = Without(clients)
  /\ UNCHANGED <<conn, early, nextId, frame, inbox, answer, printed, got>>

Exit ==
  /\ relay = "closing"
  /\ relay' = "exited"
  /\ UNCHANGED <<conn, clients, early, chan, pressed, muxVars, answer, printed,
                 metrics, got, dropped>>

-----------------------------------------------------------------------------
WsNext ==
  \/ \E c \in Clients :
       \/ CheckLimit(c) \/ Register(c) \/ CountClient(c)
       \/ WriteEvent(c) \/ WriteToChild(c) \/ Leave(c)
       \/ RemoveClient(c) \/ PurgeClient(c)
       \/ \E o \in OrigIds, kind \in {"request", "response"} : Mangle(c, o, kind)
  \/ \E m \in inbox : Unmangle(m)
  \/ \E late \in BOOLEAN : Deliver(late)
  \/ \E gone \in SUBSET clients : Broadcast(gone)
  \/ BufferEarly
  \/ CloseAllClients
  \/ Exit

WsSpec == WsInit /\ [][WsNext]_wvars

-----------------------------------------------------------------------------
(* Properties                                                              *)

Event == {Note, Close} \cup Answers

\* Every variable has its type, and no channel exceeds its capacity.
WsTypeOK ==
  /\ conn \in [Clients -> {"new", "refused", "checked", "uncounted", "open",
                           "mangled", "leaving", "removed", "gone"}]
  /\ pressed \subseteq clients /\ clients \subseteq Clients /\ dropped \subseteq Clients
  /\ early \in -1..EarlyCap
  /\ chan \in [Clients -> Seq(Event)] /\ got \in [Clients -> Seq(Event)]
  /\ \A c \in Clients : Len(chan[c]) <= ChanCap
  /\ nextId \in 1..(MaxId + 1)
  /\ pending \in [MangledIds -> Owned \cup {None}]
  /\ frame \in [Clients -> Message \cup {None}]
  /\ inbox \subseteq Message
  /\ answer \in Answers \cup {None}
  /\ printed \in 0..MaxOut
  /\ relay \in {"running", "closing", "exited"}
  /\ {active, disconnects} \subseteq Nat

\* What a client was sent and is about to be sent, and where in it answers are.
Feed(c) == got[c] \o chan[c]
AnswersAt(c) == {i \in 1..Len(Feed(c)) : Feed(c)[i].kind = "answer"}

\* Whatever ids the clients choose, alike or not, and whoever comes and goes,
\* an answer reaches the client whose request it answers, with the id that
\* client gave the request, and once, even if the child answers it again.
AnswerIsAskers ==
  \A c \in Clients : \A i \in AnswersAt(c) :
    LET e == Feed(c)[i] IN
      /\ e.of.from = [client |-> c, orig |-> e.to.orig] /\ e.to.client = c
      /\ \A j \in AnswersAt(c) : e.of = Feed(c)[j].of => i = j

\* A pending id belongs to a client that is still there, and the map does not
\* grow with the clients that come and go, unless the relay removed one
\* behind its task's back.
PendingIsOwned ==
  \A i \in MangledIds :
    pending[i] # None =>
      conn[pending[i].client] # "gone" \/ pending[i].client \in dropped

\* While the gateway runs active_clients and client_disconnects are exact up
\* to the tasks on their way, though the relay and the task of a client may
\* both remove it.
WsGaugesExact ==
  LET at(where) == {c \in Clients : conn[c] = where}
      registered == {c \in Clients : conn[c] \notin {"new", "refused", "checked"}}
      late == Cardinality(at("removed"))
  IN  relay = "running" =>
        /\ active = Cardinality(clients \ at("uncounted")) + late
        /\ disconnects = Cardinality(registered \ clients) - late

-----------------------------------------------------------------------------
(* The inductive invariant behind them                                     *)

\* The tasks between registration and disconnect_client(), and what each step
\* of a task takes for granted.
Attached == {"uncounted", "open", "mangled", "leaving"}

TasksFit ==
  /\ \A c \in clients : conn[c] \in Attached
  /\ \A c \in Clients :
       /\ conn[c] \in {"new", "refused", "checked"} => got[c] = <<>>
       /\ conn[c] = "uncounted" /\ relay = "running" => c \in clients
       /\ conn[c] \in Attached => c \in clients \cup dropped
       /\ conn[c] = "mangled" => frame[c] # None

\* The clients active_clients counts, and those client_disconnects does.
Served ==
  {c \in Clients : (c \in clients /\ conn[c] # "uncounted") \/ conn[c] = "removed"}
Left ==
  {c \in Clients : c \notin clients /\ conn[c] \notin {"new", "refused", "checked", "removed"}}

GaugesCount ==
  relay = "running" => active = Cardinality(Served) /\ disconnects = Cardinality(Left)

\* No mangled id is used twice, and while it is pending it leads back to who
\* sent the message.
Mangled == inbox \cup ({frame[c] : c \in Clients} \ {None})
IdsAreUnique ==
  /\ \A m \in Mangled : m.id < nextId /\ pending[m.id] \in {None, m.from}
  /\ \A m, n \in Mangled : m.id = n.id => m = n

\* An answer that was looked up is its asker's, and was taken out of the map.
Routed(a) ==
  a.of \in inbox /\ a.to = a.of.from /\ pending[a.of.id] = None

AnswersAreRouted ==
  /\ answer # None => Routed(answer)
  /\ \A c \in Clients : \A i \in AnswersAt(c) :
       /\ Routed(Feed(c)[i]) /\ Feed(c)[i].to.client = c
       /\ answer # None => answer.of # Feed(c)[i].of
       /\ \A j \in AnswersAt(c) : Feed(c)[i].of = Feed(c)[j].of => i = j

WsIInv ==
  /\ WsTypeOK /\ TasksFit /\ GaugesCount /\ IdsAreUnique /\ AnswersAreRouted
  /\ PendingIsOwned
=============================================================================
