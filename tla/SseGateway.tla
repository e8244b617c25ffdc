------------------------------ MODULE SseGateway ------------------------------
(***************************************************************************)
(* The SSE gateway (src/src/gateway/sse.rs): one child, whose every        *)
(* message the relay broadcasts to the connected clients, each behind a    *)
(* bounded channel; an early buffer for what is printed before the first   *)
(* client; and the connection tasks that register, stream and leave.       *)
(*                                                                         *)
(* A message is its number in the child's output.  handle_message() only   *)
(* writes to the child and changes no state of the gateway.  A task keeps  *)
(* its receiver until after disconnect_client(), so that a registered      *)
(* client's channel is full or open, never disconnected.                   *)
(***************************************************************************)
EXTENDS Integers, Sequences, FiniteSets

CONSTANTS
  Clients,      \* GET connections, one each
  MaxClients,   \* MAX_SSE_CLIENTS
  ChanCap,      \* CLIENT_CHANNEL_CAP
  EarlyCap,     \* EARLY_BUFFER_CAP
  MaxMsgs       \* bound on the child's output

ASSUME LimitsPositive == {MaxClients, ChanCap, EarlyCap, MaxMsgs} \subseteq Nat \ {0}
ASSUME ClientsAreFinite == IsFiniteSet(Clients)

VARIABLES
  produced,      \* messages the relay has read
  eventCounter,  \* SseGateway.event_counter
  early,         \* Inner.early_buffer, NoBuffer once taken
  clients,       \* keys of Inner.clients
  chan,          \* each client's channel
  pressed,       \* clients whose backpressure_since is set
  conn,          \* where the connection's task is
  out,           \* what was written to the client
  active,        \* Metrics.active_clients
  disconnects,   \* Metrics.client_disconnects
  exited,        \* the child ended and the process with it
  missed         \* history: clients a buffer was full for

svars == <<produced, eventCounter, early, clients, chan, pressed, conn, out,
           active, disconnects, exited, missed>>

NoBuffer == "none"
Endpoint == [msg |-> 0, id |-> 0]
Event(n, id) == [msg |-> n, id |-> id]
Prefix(s, n) == SubSeq(s, 1, IF Len(s) < n THEN Len(s) ELSE n)

SseInit ==
  /\ produced = 0 /\ eventCounter = 0
  /\ early = <<>>
  /\ clients = {} /\ pressed = {} /\ missed = {}
  /\ chan = [c \in Clients |-> <<>>]
  /\ out = [c \in Clients |-> <<>>]
  /\ conn = [c \in Clients |-> "new"]
  /\ active = 0 /\ disconnects = 0
  /\ exited = FALSE

Goto(c, from, to) ==
  /\ ~exited
  /\ conn[c] = from
  /\ conn' = [conn EXCEPT ![c] = to]

\* dec_and_log() saturates.
Less(n, k) == IF n < k THEN 0 ELSE n - k

-----------------------------------------------------------------------------
(* handle_sse_connect(): the limit under one lock, the registration under  *)
(* the next, the gauge under none.                                         *)

CheckLimit(c) ==
  /\ Goto(c, "new", IF Cardinality(clients) >= MaxClients THEN "refused" ELSE "checked")
  /\ UNCHANGED <<produced, eventCounter, early, clients, chan, pressed, out, active,
                 disconnects, exited, missed>>

Drained == IF early = NoBuffer THEN <<>>
           ELSE [i \in 1..Len(early) |-> Event(early[i], eventCounter + i)]

BufferAfterDrain_Kept == early
BufferAfterDrain == NoBuffer

CounterAfterDrain == eventCounter + Len(Drained)

Register(c) ==
  /\ Goto(c, "checked", "uncounted")
  /\ chan' = [chan EXCEPT ![c] = Prefix(<<Endpoint>> \o Drained, ChanCap)]
  /\ missed' = IF early # NoBuffer /\ produced > Len(chan'[c]) - 1
               THEN missed \cup {c} ELSE missed
  /\ eventCounter' = CounterAfterDrain
  /\ early' = BufferAfterDrain
  /\ clients' = clients \cup {c}
  /\ UNCHANGED <<produced, pressed, out, active, disconnects, exited>>

CountClient(c) ==
  /\ Goto(c, "uncounted", "streaming")
  /\ active' = active + 1
  /\ UNCHANGED <<produced, eventCounter, early, clients, chan, pressed, out,
                 disconnects, exited, missed>>

-----------------------------------------------------------------------------
(* The stream of a connection, and disconnect_client().                    *)

WriteEvent(c) ==
  /\ Goto(c, "streaming", "streaming")
  /\ chan[c] # <<>>
  /\ out' = [out EXCEPT ![c] = Append(@, Head(chan[c]))]
  /\ chan' = [chan EXCEPT ![c] = Tail(@)]
  /\ UNCHANGED <<produced, eventCounter, early, clients, pressed, active,
                 disconnects, exited, missed>>

\* A write failed (the client may go at any moment), or the channel closed.
StreamEnds(c) ==
  /\ Goto(c, "streaming", "leaving")
  /\ UNCHANGED <<produced, eventCounter, early, clients, chan, pressed, out, active,
                 disconnects, exited, missed>>

\* Whether disconnect_client() counts: only if it found the client.
Counts_Always(c) == TRUE
Counts(c) == c \in clients

RemoveClient(c) ==
  /\ Goto(c, "leaving", IF Counts(c) THEN "removed" ELSE "gone")
  /\ clients' = clients \ {c}
  /\ pressed' = pressed \ {c}
  /\ UNCHANGED <<produced, eventCounter, early, chan, out, active, disconnects,
                 exited, missed>>

UncountClient(c) ==
  /\ Goto(c, "removed", "gone")
  /\ disconnects' = disconnects + 1
  /\ active' = Less(active, 1)
  /\ UNCHANGED <<produced, eventCounter, early, clients, chan, pressed, out, exited,
                 missed>>

-----------------------------------------------------------------------------
(* run_relay_async() and broadcast_locked()                                *)

BufferEarly ==
  /\ ~exited /\ produced < MaxMsgs
  /\ early # NoBuffer /\ clients = {}
  /\ produced' = produced + 1
  /\ early' = IF Len(early) < EarlyCap THEN Append(early, produced + 1) ELSE early
  /\ UNCHANGED <<eventCounter, clients, chan, pressed, conn, out, active,
                 disconnects, exited, missed>>

HasRoom_OffByOne(c) == Len(chan[c]) <= ChanCap
HasRoom(c) == Len(chan[c]) < ChanCap
Full == {c \in clients : ~HasRoom(c)}

\* BACKPRESSURE_TIMEOUT may have passed for any client under pressure whose
\* task got as far as the gauge: it takes 30 s.
Overdue == {c \in Full \cap pressed : conn[c] # "uncounted"}

\* The clients that stay under pressure; a delivery relieves a client.
StillPressed_Sticky(gone) == (pressed \cup Full) \ gone
StillPressed(gone) == Full \ gone

Broadcast(gone) ==
  /\ ~exited /\ produced < MaxMsgs
  /\ early = NoBuffer \/ clients # {}
  /\ gone \subseteq Overdue
  /\ produced' = produced + 1
  /\ eventCounter' = eventCounter + 1
  /\ chan' = [c \in Clients |->
               IF c \in clients /\ HasRoom(c)
               THEN Append(chan[c], Event(produced + 1, eventCounter + 1))
               ELSE chan[c]]
  /\ pressed' = StillPressed(gone)
  /\ missed' = missed \cup Full
  /\ clients' = clients \ gone
  /\ disconnects' = disconnects + Cardinality(gone)
  /\ active' = Less(active, Cardinality(gone))
  /\ UNCHANGED <<early, conn, out, exited>>

\* kill(), then process::exit().
RelayEnds ==
  /\ ~exited
  /\ exited' = TRUE
  /\ UNCHANGED <<produced, eventCounter, early, clients, chan, pressed, conn, out,
                 active, disconnects, missed>>

SseNext ==
  \/ \E c \in Clients :
       \/ CheckLimit(c) \/ Register(c) \/ CountClient(c)
       \/ WriteEvent(c) \/ StreamEnds(c)
       \/ RemoveClient(c) \/ UncountClient(c)
  \/ BufferEarly
  \/ \E gone \in SUBSET clients : Broadcast(gone)
  \/ RelayEnds

SseSpec == SseInit /\ [][SseNext]_svars

-----------------------------------------------------------------------------
(* Properties                                                              *)

EventOf == [msg : 0..MaxMsgs, id : Nat]

\* Every variable has its type, and no channel or buffer exceeds its capacity.
SseTypeOK ==
  /\ {produced, eventCounter, active, disconnects} \subseteq Nat
  /\ \/ early = NoBuffer
     \/ early \in Seq(1..MaxMsgs) /\ Len(early) <= EarlyCap
  /\ missed \subseteq Clients
  /\ pressed \subseteq clients /\ clients \subseteq Clients
  /\ chan \in [Clients -> Seq(EventOf)] /\ out \in [Clients -> Seq(EventOf)]
  /\ \A c \in Clients : Len(chan[c]) <= ChanCap
  /\ conn \in [Clients -> {"new", "refused", "checked", "uncounted", "streaming",
                           "leaving", "removed", "gone"}]
  /\ exited \in BOOLEAN

\* What a client has been sent and is about to be sent.
Feed(c) == out[c] \o chan[c]

Chained(s) ==
  \A i \in 1..Len(s) :
    IF i = 1 THEN s[i] = Endpoint
    ELSE i > 2 => s[i].msg = s[i - 1].msg + 1 /\ s[i].id = s[i - 1].id + 1

\* A client that reads fast enough misses nothing: from its first message on
\* it gets every one, in the child's order, after the endpoint event, with
\* event ids that grow by one, across the hand-over from the early buffer to
\* the broadcast.
NoGaps == \A c \in Clients \ missed : Chained(Feed(c))

\* active_clients and client_disconnects, updated on two paths of removal
\* and partly outside the lock, are exact up to the tasks on their way.
GaugesExact ==
  LET at(where) == {c \in Clients : conn[c] = where}
      registered == {c \in Clients : conn[c] \notin {"new", "refused", "checked"}}
  IN  /\ active = Cardinality(clients \ at("uncounted")) + Cardinality(at("removed"))
      /\ disconnects =
           Cardinality(registered \ clients) - Cardinality(at("removed"))

\* A client under pressure, which the 30 s run against, did not get the last
\* message: one delivery in between stops the clock.
PressedIsBehind ==
  \A c \in pressed : Feed(c)[Len(Feed(c))].msg < produced

-----------------------------------------------------------------------------
(* The inductive invariant behind them                                     *)

Unregistered == {"new", "refused", "checked"}

TasksFit ==
  /\ \A c \in clients : conn[c] \in {"uncounted", "streaming", "leaving"}
  /\ \A c \in Clients :
       /\ conn[c] \in Unregistered => Feed(c) = <<>>
       /\ conn[c] = "uncounted" => c \in clients

\* The clients active_clients counts, and those client_disconnects does.
Served ==
  {c \in Clients : (c \in clients /\ conn[c] # "uncounted") \/ conn[c] = "removed"}
Left == {c \in Clients : c \notin clients /\ conn[c] \notin Unregistered \cup {"removed"}}

GaugesCount == active = Cardinality(Served) /\ disconnects = Cardinality(Left)

\* Until the first client the early buffer has all that was printed, as long
\* as it has room.
BufferIsFirst ==
  early # NoBuffer =>
    /\ \A c \in Clients : conn[c] \in Unregistered
    /\ eventCounter = 0 /\ Len(early) <= produced
    /\ Len(early) < EarlyCap => Len(early) = produced
    /\ \A i \in 1..Len(early) : early[i] = i

\* A client's feed ends with the last message and the last event id, unless it
\* missed something, or nothing but the endpoint event was sent to it.
EndsNow(s) == Len(s) > 1 => s[Len(s)] = Event(produced, eventCounter)
FeedsAreCurrent ==
  /\ \A c \in Clients : \A i \in 1..Len(Feed(c)) : Feed(c)[i].msg <= produced
  /\ \A c \in clients : Feed(c) # <<>>
  /\ \A c \in clients \ missed : EndsNow(Feed(c))

SseIInv ==
  /\ SseTypeOK /\ TasksFit /\ GaugesCount /\ BufferIsFirst /\ FeedsAreCurrent
  /\ NoGaps /\ PressedIsBehind
=============================================================================
