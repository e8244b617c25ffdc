-------------------------- MODULE SseGatewayProofs ---------------------------
(***************************************************************************)
(* Proofs about SseGateway, for any finite set of clients and any limits:  *)
(* the feeds have no gaps, the gauges are exact, and a client under        *)
(* pressure is behind.                                                     *)
(***************************************************************************)
EXTENDS SseGateway, FiniteSetTheorems, TLAPS

USE LimitsPositive

-----------------------------------------------------------------------------
(* Sets and sequences                                                      *)

\* A part of the clients is finite, and counted by a natural number.
LEMMA PartsAreCounted ==
  ASSUME NEW S \in SUBSET Clients
  PROVE  IsFiniteSet(S) /\ Cardinality(S) \in Nat
  BY ClientsAreFinite, FS_Subset, FS_CardinalityType

\* Subtraction that saturates stays in Nat.
LEMMA LessIsNat ==
  ASSUME NEW n \in Nat, NEW k \in Nat
  PROVE  Less(n, k) \in Nat /\ (k <= n => Less(n, k) = n - k)
  BY DEF Less

LEMMA EventTypes ==
  ASSUME NEW n \in 0..MaxMsgs, NEW k \in Nat
  PROVE  Event(n, k) \in EventOf /\ Endpoint \in EventOf
  BY DEF Event, Endpoint, EventOf

LEMMA GotoType ==
  ASSUME SseTypeOK, NEW c \in Clients, NEW from, NEW to, Goto(c, from, to),
         to \in {"refused", "checked", "uncounted", "streaming", "leaving", "removed", "gone"}
  PROVE  /\ conn' \in [Clients -> {"new", "refused", "checked", "uncounted", "streaming",
                                   "leaving", "removed", "gone"}]
         /\ conn[c] = from /\ conn'[c] = to
         /\ \A d \in Clients \ {c} : conn'[d] = conn[d]
  BY DEF SseTypeOK, Goto

\* The head of a sequence moves to the end of the one before it.
LEMMA HandOver ==
  ASSUME NEW S, NEW s \in Seq(S), NEW t \in Seq(S), t # <<>>
  PROVE  Append(s, Head(t)) \o Tail(t) = s \o t
  OBVIOUS

LEMMA FeedGrows ==
  ASSUME NEW s \in Seq(EventOf), NEW t \in Seq(EventOf), NEW e \in EventOf
  PROVE  s \o Append(t, e) = Append(s \o t, e)
  OBVIOUS

LEMMA PartsOfNothing ==
  ASSUME NEW s \in Seq(EventOf), NEW t \in Seq(EventOf), s \o t = <<>>
  PROVE  s = <<>> /\ t = <<>>
<1>1. Len(s \o t) = Len(s) + Len(t) /\ Len(s) \in Nat /\ Len(t) \in Nat
  OBVIOUS
<1>2. Len(s) = 0 /\ Len(t) = 0
  BY <1>1
<1>. QED
  BY <1>2

LEMMA PrefixOf ==
  ASSUME NEW t \in Seq(EventOf), NEW k \in Nat, k <= Len(t)
  PROVE  /\ SubSeq(t, 1, k) \in Seq(EventOf) /\ Len(SubSeq(t, 1, k)) = k
         /\ \A i \in 1..k : SubSeq(t, 1, k)[i] = t[i]
  OBVIOUS

LEMMA FeedType ==
  ASSUME SseTypeOK, NEW c \in Clients
  PROVE  /\ Feed(c) \in Seq(EventOf) /\ Len(Feed(c)) \in Nat
         /\ Feed(c) = <<>> <=> Len(Feed(c)) = 0
         /\ Feed(c) = <<>> => out[c] = <<>> /\ chan[c] = <<>>
         /\ \A i \in 1..Len(Feed(c)) : Feed(c)[i].msg \in Nat /\ Feed(c)[i].id \in Nat
<1>1. out[c] \in Seq(EventOf) /\ chan[c] \in Seq(EventOf)
  BY DEF SseTypeOK
<1>2. Feed(c) \in Seq(EventOf)
  BY <1>1 DEF Feed
<1>3. Feed(c) = <<>> => out[c] = <<>> /\ chan[c] = <<>>
  BY <1>1, PartsOfNothing DEF Feed
<1>4. Len(Feed(c)) \in Nat /\ (Feed(c) = <<>> <=> Len(Feed(c)) = 0)
  BY <1>2
<1>5. \A i \in 1..Len(Feed(c)) : Feed(c)[i] \in EventOf
  BY <1>2
<1>6. \A e \in EventOf : e.msg \in Nat /\ e.id \in Nat
  BY DEF EventOf
<1>. QED
  BY <1>2, <1>3, <1>4, <1>5, <1>6

\* What the first client finds in its channel: the endpoint event and, as far
\* as the channel goes, the drained buffer, numbered from one.
LEMMA DrainedIsNumbered ==
  ASSUME SseTypeOK, BufferIsFirst
  PROVE  /\ Drained \in Seq(EventOf) /\ Len(Drained) \in Nat
         /\ early = NoBuffer => Len(Drained) = 0
         /\ early # NoBuffer => Len(Drained) = Len(early) /\ eventCounter = 0
         /\ \A i \in 1..Len(Drained) : Drained[i] = Event(i, i) /\ i <= produced
<1>1. CASE early = NoBuffer
  BY <1>1 DEF Drained
<1>2. CASE early # NoBuffer
  <2>1. PICK n \in Nat : n = Len(early) /\ n <= produced
    BY <1>2 DEF SseTypeOK, BufferIsFirst
  <2>2. eventCounter = 0 /\ \A i \in 1..n : early[i] = i /\ early[i] \in 1..MaxMsgs
    BY <1>2, <2>1 DEF SseTypeOK, BufferIsFirst
  <2>3. Drained = [i \in 1..n |-> Event(early[i], eventCounter + i)]
    BY <1>2, <2>1 DEF Drained
  <2>4. \A i \in 1..n : Event(early[i], eventCounter + i) = Event(i, i)
    BY <2>2
  <2>5. \A i \in 1..n : Event(i, i) \in EventOf
    BY <2>2, EventTypes
  <2>6. Drained = [i \in 1..n |-> Event(i, i)]
    BY <2>3, <2>4
  <2>7. Drained \in Seq(EventOf) /\ Len(Drained) = n
    BY <2>5, <2>6
  <2>8. \A i \in 1..n : i <= produced
    BY <2>1 DEF SseTypeOK
  <2>. QED
    BY <1>2, <2>1, <2>2, <2>6, <2>7, <2>8
<1>. QED
  BY <1>1, <1>2

LEMMA FirstChannel ==
  ASSUME SseTypeOK, BufferIsFirst, NEW s, s = Prefix(<<Endpoint>> \o Drained, ChanCap)
  PROVE  /\ s \in Seq(EventOf) /\ Len(s) \in 1..ChanCap /\ Len(s) <= Len(Drained) + 1
         /\ s[1] = Endpoint
         /\ \A i \in 2..Len(s) : s[i] = Event(i - 1, i - 1) /\ i - 1 <= produced
<1>. DEFINE t == <<Endpoint>> \o Drained
<1>1. /\ Drained \in Seq(EventOf) /\ Len(Drained) \in Nat /\ Endpoint \in EventOf
      /\ \A i \in 1..Len(Drained) : Drained[i] = Event(i, i) /\ i <= produced
  BY DrainedIsNumbered, EventTypes
<1>2. /\ t \in Seq(EventOf) /\ Len(t) = Len(Drained) + 1 /\ t[1] = Endpoint
      /\ \A i \in 2..Len(t) : t[i] = Drained[i - 1]
  BY <1>1
<1>. HIDE DEF t
<1>3. PICK k \in Nat : /\ k = IF Len(t) < ChanCap THEN Len(t) ELSE ChanCap
                       /\ 1 <= k /\ k <= Len(t) /\ k <= ChanCap
  BY <1>1, <1>2
<1>4. s = SubSeq(t, 1, k)
  BY <1>3 DEF Prefix, t
<1>5. s \in Seq(EventOf) /\ Len(s) = k /\ \A i \in 1..k : s[i] = t[i]
  <2>1. /\ SubSeq(t, 1, k) \in Seq(EventOf) /\ Len(SubSeq(t, 1, k)) = k
        /\ \A i \in 1..k : SubSeq(t, 1, k)[i] = t[i]
    BY <1>2, <1>3, PrefixOf
  <2>. QED
    BY <1>4, <2>1
<1>6. Len(s) \in 1..ChanCap /\ Len(s) <= Len(Drained) + 1 /\ s[1] = Endpoint
  BY <1>2, <1>3, <1>5
<1>7. ASSUME NEW i \in 2..Len(s)
      PROVE  s[i] = Event(i - 1, i - 1) /\ i - 1 <= produced
  <2>1. i \in 2..Len(t) /\ i \in 1..k /\ i - 1 \in 1..Len(Drained)
    BY <1>1, <1>2, <1>3, <1>5
  <2>. QED
    BY <1>1, <1>2, <1>5, <2>1
<1>. QED
  BY <1>5, <1>6, <1>7

-----------------------------------------------------------------------------
(* Types, tasks and gauges                                                 *)

LEMMA SseInitially == SseInit => SseIInv
<1>. SUFFICES ASSUME SseInit PROVE SseIInv
  OBVIOUS
<1>1. SseTypeOK
  <2>1. <<>> \in Seq(1..MaxMsgs) /\ <<>> \in Seq(EventOf) /\ Len(<<>>) = 0
    OBVIOUS
  <2>2. /\ {produced, eventCounter, active, disconnects} \subseteq Nat
        /\ early \in Seq(1..MaxMsgs) /\ Len(early) <= EarlyCap
    BY <2>1 DEF SseInit
  <2>3. /\ missed \subseteq Clients /\ pressed \subseteq clients /\ clients \subseteq Clients
        /\ exited \in BOOLEAN
    BY DEF SseInit
  <2>4. /\ chan \in [Clients -> Seq(EventOf)] /\ out \in [Clients -> Seq(EventOf)]
        /\ \A c \in Clients : Len(chan[c]) <= ChanCap
    BY <2>1 DEF SseInit
  <2>5. conn \in [Clients -> {"new", "refused", "checked", "uncounted", "streaming",
                             "leaving", "removed", "gone"}]
    BY DEF SseInit
  <2>. QED
    BY <2>2, <2>3, <2>4, <2>5 DEF SseTypeOK
<1>2. \A c \in Clients : Feed(c) = <<>>
  BY DEF SseInit, Feed
<1>3. TasksFit
  BY <1>2 DEF SseInit, TasksFit, Unregistered
<1>4. Served = {} /\ Left = {}
  BY DEF SseInit, Served, Left, Unregistered
<1>5. GaugesCount
  BY <1>4, FS_EmptySet DEF SseInit, GaugesCount
<1>6. BufferIsFirst
  BY DEF SseInit, BufferIsFirst, Unregistered
<1>7. FeedsAreCurrent /\ NoGaps /\ PressedIsBehind
  BY <1>2 DEF SseInit, FeedsAreCurrent, NoGaps, Chained, PressedIsBehind
<1>. QED
  BY <1>1, <1>3, <1>5, <1>6, <1>7 DEF SseIInv

\* What a step of a task does to its place, the map, the gauges and its feed.
LEMMA TaskEffect ==
  ASSUME SseTypeOK, NEW c \in Clients,
         \/ CheckLimit(c) \/ Register(c) \/ CountClient(c) \/ WriteEvent(c)
         \/ StreamEnds(c) \/ RemoveClient(c) \/ UncountClient(c)
  PROVE  /\ conn' \in [Clients -> {"new", "refused", "checked", "uncounted", "streaming",
                                   "leaving", "removed", "gone"}]
         /\ \A d \in Clients \ {c} : conn'[d] = conn[d]
         /\ produced' = produced /\ exited' = exited
         /\ \/ /\ conn[c] = "new" /\ conn'[c] \in {"refused", "checked"}
               /\ UNCHANGED <<clients, active, disconnects>>
            \/ /\ conn[c] = "checked" /\ conn'[c] = "uncounted"
               /\ clients' = clients \cup {c} /\ UNCHANGED <<active, disconnects>>
            \/ /\ conn[c] = "uncounted" /\ conn'[c] = "streaming"
               /\ active' = active + 1 /\ UNCHANGED <<clients, disconnects>>
            \/ /\ conn[c] = "streaming" /\ conn'[c] \in {"streaming", "leaving"}
               /\ UNCHANGED <<clients, active, disconnects>>
            \/ /\ conn[c] = "leaving" /\ conn'[c] = IF c \in clients THEN "removed" ELSE "gone"
               /\ clients' = clients \ {c} /\ UNCHANGED <<active, disconnects>>
            \/ /\ conn[c] = "removed" /\ conn'[c] = "gone" /\ UNCHANGED clients
               /\ active' = Less(active, 1) /\ disconnects' = disconnects + 1
<1>1. CASE CheckLimit(c)
  BY <1>1, GotoType DEF CheckLimit
<1>2. CASE Register(c)
  BY <1>2, GotoType DEF Register
<1>3. CASE CountClient(c)
  BY <1>3, GotoType DEF CountClient
<1>4. CASE WriteEvent(c)
  BY <1>4, GotoType DEF WriteEvent
<1>5. CASE StreamEnds(c)
  BY <1>5, GotoType DEF StreamEnds
<1>6. CASE RemoveClient(c)
  BY <1>6, GotoType DEF RemoveClient, Counts
<1>7. CASE UncountClient(c)
  BY <1>7, GotoType DEF UncountClient
<1>. QED
  BY <1>1, <1>2, <1>3, <1>4, <1>5, <1>6, <1>7

LEMMA TypesStep ==
  ASSUME SseTypeOK, BufferIsFirst, SseNext
  PROVE  SseTypeOK'
<1>. USE DEF SseTypeOK
<1>1. ASSUME NEW c \in Clients, Register(c) PROVE SseTypeOK'
  <2>1. /\ chan'[c] \in Seq(EventOf) /\ Len(chan'[c]) <= ChanCap
        /\ \A d \in Clients \ {c} : chan'[d] = chan[d]
        /\ chan' \in [Clients -> Seq(EventOf)]
    <3>1. PICK s : s = Prefix(<<Endpoint>> \o Drained, ChanCap)
      OBVIOUS
    <3>2. s \in Seq(EventOf) /\ Len(s) <= ChanCap
      BY <3>1, FirstChannel
    <3>3. chan' = [chan EXCEPT ![c] = s]
      BY <1>1, <3>1 DEF Register
    <3>. QED
      BY <3>2, <3>3
  <2>2. \A d \in Clients : Len(chan'[d]) <= ChanCap
    BY <2>1
  <2>3. eventCounter' \in Nat
    BY <1>1, DrainedIsNumbered DEF Register, CounterAfterDrain
  <2>4. conn' \in [Clients -> {"new", "refused", "checked", "uncounted", "streaming",
                               "leaving", "removed", "gone"}]
    BY <1>1, TaskEffect
  <2>5. /\ UNCHANGED <<produced, pressed, out, active, disconnects, exited>>
        /\ missed' \subseteq Clients /\ clients' = clients \cup {c} /\ early' = NoBuffer
    BY <1>1 DEF Register, BufferAfterDrain
  <2>. QED
    BY <2>1, <2>2, <2>3, <2>4, <2>5
<1>2. ASSUME NEW c \in Clients, WriteEvent(c) PROVE SseTypeOK'
  <2>1. conn' \in [Clients -> {"new", "refused", "checked", "uncounted", "streaming",
                               "leaving", "removed", "gone"}]
    BY <1>2, TaskEffect
  <2>2. /\ Head(chan[c]) \in EventOf /\ Tail(chan[c]) \in Seq(EventOf)
        /\ Len(Tail(chan[c])) <= ChanCap
    BY <1>2 DEF WriteEvent
  <2>3. chan' \in [Clients -> Seq(EventOf)] /\ \A d \in Clients : Len(chan'[d]) <= ChanCap
    BY <1>2, <2>2 DEF WriteEvent
  <2>4. out' \in [Clients -> Seq(EventOf)]
    BY <1>2, <2>2 DEF WriteEvent
  <2>. QED
    BY <1>2, <2>1, <2>3, <2>4 DEF WriteEvent
<1>3. ASSUME NEW c \in Clients, CheckLimit(c) \/ CountClient(c) \/ StreamEnds(c)
      PROVE  SseTypeOK'
  <2>1. conn' \in [Clients -> {"new", "refused", "checked", "uncounted", "streaming",
                               "leaving", "removed", "gone"}]
    BY <1>3, TaskEffect
  <2>. QED
    BY <1>3, <2>1 DEF CheckLimit, CountClient, StreamEnds
<1>4. ASSUME NEW c \in Clients, RemoveClient(c) PROVE SseTypeOK'
  <2>1. conn' \in [Clients -> {"new", "refused", "checked", "uncounted", "streaming",
                               "leaving", "removed", "gone"}]
    BY <1>4, TaskEffect
  <2>. QED
    BY <1>4, <2>1 DEF RemoveClient
<1>5. ASSUME NEW c \in Clients, UncountClient(c) PROVE SseTypeOK'
  <2>1. conn' \in [Clients -> {"new", "refused", "checked", "uncounted", "streaming",
                               "leaving", "removed", "gone"}]
    BY <1>5, TaskEffect
  <2>2. Less(active, 1) \in Nat
    BY LessIsNat
  <2>. QED
    BY <1>5, <2>1, <2>2 DEF UncountClient
<1>6. CASE BufferEarly
  <2>1. early \in Seq(1..MaxMsgs) /\ Len(early) <= EarlyCap /\ produced + 1 \in 1..MaxMsgs
    BY <1>6 DEF BufferEarly
  <2>2. early' \in Seq(1..MaxMsgs) /\ Len(early') <= EarlyCap
    <3>1. CASE Len(early) < EarlyCap
      BY <1>6, <2>1, <3>1 DEF BufferEarly
    <3>2. CASE ~(Len(early) < EarlyCap)
      BY <1>6, <2>1, <3>2 DEF BufferEarly
    <3>. QED
      BY <3>1, <3>2
  <2>. QED
    BY <1>6, <2>2 DEF BufferEarly
<1>7. ASSUME NEW gone \in SUBSET clients, Broadcast(gone) PROVE SseTypeOK'
  <2>. DEFINE e == Event(produced + 1, eventCounter + 1)
  <2>1. e \in EventOf
    BY <1>7, EventTypes DEF Broadcast
  <2>. HIDE DEF e
  <2>2. ASSUME NEW c \in Clients PROVE chan'[c] \in Seq(EventOf) /\ Len(chan'[c]) <= ChanCap
    <3>1. chan'[c] = IF c \in clients /\ HasRoom(c) THEN Append(chan[c], e) ELSE chan[c]
      BY <1>7 DEF Broadcast, e
    <3>2. CASE c \in clients /\ HasRoom(c)
      BY <2>1, <3>1, <3>2 DEF HasRoom
    <3>3. CASE ~(c \in clients /\ HasRoom(c))
      BY <3>1, <3>3
    <3>. QED
      BY <3>2, <3>3
  <2>3. chan' \in [Clients -> Seq(EventOf)]
    <3>1. chan' = [c \in Clients |-> chan'[c]]
      BY <1>7 DEF Broadcast
    <3>. QED
      BY <2>2, <3>1
  <2>4. Cardinality(gone) \in Nat
    BY PartsAreCounted
  <2>5. Less(active, Cardinality(gone)) \in Nat /\ disconnects + Cardinality(gone) \in Nat
    <3>1. active \in Nat /\ disconnects \in Nat
      OBVIOUS
    <3>2. Less(active, Cardinality(gone)) \in Nat
      BY <2>4, <3>1, LessIsNat
    <3>. QED
      BY <2>4, <3>1, <3>2
  <2>6. pressed' \subseteq clients' /\ clients' \subseteq Clients /\ missed' \subseteq Clients
    BY <1>7 DEF Broadcast, StillPressed, Full
  <2>. QED
    BY <1>7, <2>2, <2>3, <2>5, <2>6 DEF Broadcast
<1>8. CASE RelayEnds
  BY <1>8 DEF RelayEnds
<1>. QED
  BY <1>1, <1>2, <1>3, <1>4, <1>5, <1>6, <1>7, <1>8 DEF SseNext

\* The feeds change where a client is registered or a message broadcast.
LEMMA FeedsStay ==
  ASSUME SseTypeOK, NEW c \in Clients,
         \/ CheckLimit(c) \/ CountClient(c) \/ WriteEvent(c)
         \/ StreamEnds(c) \/ RemoveClient(c) \/ UncountClient(c)
  PROVE  /\ \A d \in Clients : Feed(d)' = Feed(d)
         /\ UNCHANGED <<early, eventCounter, missed>> /\ pressed' \subseteq pressed
<1>1. CASE WriteEvent(c)
  <2>1. /\ out[c] \in Seq(EventOf) /\ chan[c] \in Seq(EventOf) /\ chan[c] # <<>>
        /\ out'[c] = Append(out[c], Head(chan[c])) /\ chan'[c] = Tail(chan[c])
        /\ \A d \in Clients \ {c} : out'[d] = out[d] /\ chan'[d] = chan[d]
    BY <1>1 DEF WriteEvent, SseTypeOK
  <2>2. Feed(c)' = Feed(c)
    BY <2>1, HandOver DEF Feed
  <2>3. \A d \in Clients \ {c} : Feed(d)' = Feed(d)
    BY <2>1 DEF Feed
  <2>. QED
    BY <1>1, <2>2, <2>3 DEF WriteEvent
<1>2. CASE \/ CheckLimit(c) \/ CountClient(c) \/ StreamEnds(c) \/ RemoveClient(c)
           \/ UncountClient(c)
  BY <1>2 DEF CheckLimit, CountClient, StreamEnds, RemoveClient, UncountClient, Feed
<1>. QED
  BY <1>1, <1>2

\* A broadcast puts the message behind the feed of whoever has room.
LEMMA BroadcastFeeds ==
  ASSUME SseTypeOK, NEW gone \in SUBSET clients, Broadcast(gone), NEW c \in Clients
  PROVE  Feed(c)' = IF c \in clients \ Full
                    THEN Append(Feed(c), Event(produced + 1, eventCounter + 1))
                    ELSE Feed(c)
<1>. DEFINE e == Event(produced + 1, eventCounter + 1)
<1>1. /\ out' = out
      /\ chan'[c] = IF c \in clients \ Full THEN Append(chan[c], e) ELSE chan[c]
  BY DEF Broadcast, Full
<1>2. out[c] \in Seq(EventOf) /\ chan[c] \in Seq(EventOf) /\ e \in EventOf
  <2>1. produced + 1 \in 0..MaxMsgs /\ eventCounter + 1 \in Nat
    BY DEF Broadcast, SseTypeOK
  <2>2. e \in EventOf
    BY <2>1, EventTypes
  <2>. QED
    BY <2>2 DEF SseTypeOK
<1>. HIDE DEF e
<1>3. out[c] \o Append(chan[c], e) = Append(out[c] \o chan[c], e)
  BY <1>2, FeedGrows
<1>4. CASE c \in clients \ Full
  BY <1>1, <1>3, <1>4 DEF Feed, e
<1>5. CASE c \notin clients \ Full
  BY <1>1, <1>5 DEF Feed
<1>. QED
  BY <1>4, <1>5

LEMMA TasksStep ==
  ASSUME SseTypeOK, TasksFit, BufferIsFirst, SseNext
  PROVE  TasksFit'
<1>. USE DEF TasksFit, Unregistered
<1>. clients \subseteq Clients
  BY DEF SseTypeOK
<1>1. ASSUME NEW c \in Clients,
             \/ CheckLimit(c) \/ Register(c) \/ CountClient(c) \/ WriteEvent(c)
             \/ StreamEnds(c) \/ RemoveClient(c) \/ UncountClient(c)
      PROVE  TasksFit'
  <2>1. \A d \in Clients \ {c} : Feed(d)' = Feed(d)
    <3>1. CASE Register(c)
      BY <3>1 DEF Register, SseTypeOK, Feed
    <3>2. CASE ~Register(c)
      BY <1>1, <3>2, FeedsStay
    <3>. QED
      BY <3>1, <3>2
  <2>2. conn'[c] \in Unregistered => Feed(c)' = Feed(c) /\ conn[c] \in Unregistered
    <3>1. CASE Register(c)
      BY <3>1, GotoType DEF Register
    <3>2. CASE ~Register(c)
      BY <1>1, <3>2, FeedsStay, TaskEffect
    <3>. QED
      BY <3>1, <3>2
  <2>3. \A d \in Clients : conn'[d] \in Unregistered => Feed(d)' = <<>>
    BY <1>1, <2>1, <2>2, TaskEffect
  <2>4. /\ \A d \in clients' : conn'[d] \in {"uncounted", "streaming", "leaving"}
        /\ \A d \in Clients : conn'[d] = "uncounted" => d \in clients'
    BY <1>1, TaskEffect
  <2>. QED
    BY <2>3, <2>4
<1>2. ASSUME NEW gone \in SUBSET clients, Broadcast(gone) PROVE TasksFit'
  <2>1. /\ conn' = conn /\ clients' = clients \ gone
        /\ \A c \in gone : conn[c] # "uncounted"
    BY <1>2 DEF Broadcast, Overdue
  <2>2. \A c \in Clients : conn[c] \in Unregistered => Feed(c)' = Feed(c)
    BY <1>2, BroadcastFeeds
  <2>. QED
    BY <2>1, <2>2
<1>3. CASE BufferEarly \/ RelayEnds
  <2>1. UNCHANGED <<conn, clients, out, chan>>
    BY <1>3 DEF BufferEarly, RelayEnds
  <2>. QED
    BY <2>1 DEF Feed
<1>. QED
  BY <1>1, <1>2, <1>3 DEF SseNext

\* The clients a gauge counts are finite in number.
LEMMA CountedAreFinite ==
  /\ IsFiniteSet(Served) /\ IsFiniteSet(Left)
  /\ Cardinality(Served) \in Nat /\ Cardinality(Left) \in Nat
<1>1. Served \in SUBSET Clients /\ Left \in SUBSET Clients
  BY DEF Served, Left
<1>. QED
  BY <1>1, PartsAreCounted

LEMMA GaugesStep ==
  ASSUME SseTypeOK, TasksFit, GaugesCount, SseNext
  PROVE  GaugesCount'
<1>. USE DEF GaugesCount
<1>0. active \in Nat /\ disconnects \in Nat
  BY DEF SseTypeOK
<1>1. ASSUME NEW c \in Clients,
             \/ CheckLimit(c) \/ Register(c) \/ CountClient(c) \/ WriteEvent(c)
             \/ StreamEnds(c) \/ RemoveClient(c) \/ UncountClient(c)
      PROVE  GaugesCount'
  <2>. USE DEF TasksFit, Served, Left, Unregistered
  <2>1. \A d \in Clients \ {c} : conn'[d] = conn[d]
    BY <1>1, TaskEffect
  <2>2. CASE \/ conn[c] = "new" /\ conn'[c] \in {"refused", "checked"} /\ clients' = clients
             \/ conn[c] = "checked" /\ conn'[c] = "uncounted" /\ clients' = clients \cup {c}
             \/ conn[c] = "streaming" /\ conn'[c] \in {"streaming", "leaving"} /\ clients' = clients
             \/ /\ conn[c] = "leaving" /\ conn'[c] = IF c \in clients THEN "removed" ELSE "gone"
                /\ clients' = clients \ {c}
    <3>1. Served' = Served /\ Left' = Left
      BY <2>1, <2>2
    <3>2. UNCHANGED <<active, disconnects>>
      BY <1>1, <2>2, TaskEffect
    <3>. QED
      BY <3>1, <3>2
  <2>3. CASE /\ conn[c] = "uncounted" /\ conn'[c] = "streaming"
             /\ active' = active + 1 /\ UNCHANGED <<clients, disconnects>>
    <3>1. Served' = Served \cup {c} /\ c \notin Served /\ Left' = Left
      BY <2>1, <2>3
    <3>. HIDE DEF Served, Left
    <3>. QED
      BY <2>3, <3>1, CountedAreFinite, FS_AddElement
  <2>4. CASE /\ conn[c] = "removed" /\ conn'[c] = "gone" /\ UNCHANGED clients
             /\ active' = Less(active, 1) /\ disconnects' = disconnects + 1
    <3>1. /\ Served' = Served \ {c} /\ c \in Served
          /\ Left' = Left \cup {c} /\ c \notin Left
      BY <2>1, <2>4
    <3>. HIDE DEF Served, Left
    <3>2. Cardinality(Served') = Cardinality(Served) - 1 /\ Cardinality(Served') \in Nat
      BY <3>1, CountedAreFinite, FS_RemoveElement, FS_CardinalityType
    <3>3. Cardinality(Left') = Cardinality(Left) + 1
      BY <3>1, CountedAreFinite, FS_AddElement
    <3>4. active' = active - 1
      BY <2>4, <3>2, CountedAreFinite DEF Less
    <3>. QED
      BY <2>4, <3>2, <3>3, <3>4
  <2>. QED
    BY <1>1, <2>2, <2>3, <2>4, TaskEffect
<1>2. ASSUME NEW S \in SUBSET clients, Broadcast(S) PROVE GaugesCount'
  <2>1. /\ conn' = conn /\ clients' = clients \ S
        /\ active' = Less(active, Cardinality(S))
        /\ disconnects' = disconnects + Cardinality(S)
        /\ \A c \in S : conn[c] # "uncounted"
    BY <1>2 DEF Broadcast, Overdue
  <2>2. Served' = Served \ S /\ Served \cap S = S /\ Left' = Left \cup S /\ Left \cap S = {}
    BY <2>1 DEF SseTypeOK, TasksFit, Served, Left, Unregistered
  <2>3. IsFiniteSet(S) /\ Cardinality(S) \in Nat
    BY PartsAreCounted DEF SseTypeOK
  <2>4. Cardinality(Served') = Cardinality(Served) - Cardinality(S) /\ Cardinality(Served') \in Nat
    BY <2>2, CountedAreFinite, FS_Difference, FS_CardinalityType
  <2>5. Cardinality(Left') = Cardinality(Left) + Cardinality(S)
    <3>1. Cardinality(Left \cup S) = Cardinality(Left) + Cardinality(S) - Cardinality(Left \cap S)
      BY <2>3, CountedAreFinite, FS_Union
    <3>2. Cardinality(Left \cap S) = 0
      BY <2>2, FS_EmptySet
    <3>. QED
      BY <2>2, <2>3, <3>1, <3>2, CountedAreFinite
  <2>6. active' = active - Cardinality(S)
    BY <2>1, <2>3, <2>4, CountedAreFinite DEF Less
  <2>. QED
    BY <2>1, <2>4, <2>5, <2>6
<1>3. CASE BufferEarly \/ RelayEnds
  <2>1. UNCHANGED <<conn, clients, active, disconnects>>
    BY <1>3 DEF BufferEarly, RelayEnds
  <2>2. Served' = Served /\ Left' = Left
    BY <2>1 DEF Served, Left
  <2>. QED
    BY <2>1, <2>2
<1>. QED
  BY <1>1, <1>2, <1>3 DEF SseNext

-----------------------------------------------------------------------------
(* The early buffer and the feeds                                          *)

LEMMA BufferStep ==
  ASSUME SseTypeOK, TasksFit, BufferIsFirst, SseNext
  PROVE  BufferIsFirst'
<1>. USE DEF BufferIsFirst
<1>1. ASSUME NEW c \in Clients, Register(c) PROVE BufferIsFirst'
  BY <1>1 DEF Register, BufferAfterDrain
<1>2. ASSUME NEW c \in Clients,
             \/ CheckLimit(c) \/ CountClient(c) \/ WriteEvent(c)
             \/ StreamEnds(c) \/ RemoveClient(c) \/ UncountClient(c)
      PROVE  BufferIsFirst'
  <2>1. UNCHANGED <<early, eventCounter, produced>>
    BY <1>2, FeedsStay, TaskEffect
  <2>2. conn[c] \in Unregistered => conn'[c] \in Unregistered
    BY <1>2, GotoType DEF CheckLimit, CountClient, WriteEvent, StreamEnds, RemoveClient,
         UncountClient, Unregistered
  <2>3. \A d \in Clients \ {c} : conn'[d] = conn[d]
    BY <1>2, TaskEffect
  <2>. QED
    BY <2>1, <2>2, <2>3
<1>3. CASE BufferEarly
  <2>1. PICK n \in Nat : /\ n = Len(early) /\ n <= produced /\ n <= EarlyCap
                         /\ n < EarlyCap => n = produced
    BY <1>3 DEF BufferEarly, SseTypeOK
  <2>2. /\ early \in Seq(1..MaxMsgs) /\ produced' = produced + 1 /\ produced \in Nat
        /\ eventCounter' = eventCounter /\ conn' = conn
        /\ early' = IF n < EarlyCap THEN Append(early, produced + 1) ELSE early
    BY <1>3, <2>1 DEF BufferEarly, SseTypeOK
  <2>3. CASE n < EarlyCap
    <3>1. Len(early') = n + 1 /\ early'[n + 1] = n + 1 /\ \A i \in 1..n : early'[i] = early[i]
      BY <2>1, <2>2, <2>3
    <3>2. \A i \in 1..Len(early') : early'[i] = i
      BY <1>3, <2>1, <3>1 DEF BufferEarly
    <3>. QED
      BY <1>3, <2>1, <2>2, <2>3, <3>1, <3>2 DEF BufferEarly
  <2>4. CASE ~(n < EarlyCap)
    BY <1>3, <2>1, <2>2, <2>4 DEF BufferEarly
  <2>. QED
    BY <2>3, <2>4
<1>4. ASSUME NEW gone \in SUBSET clients, Broadcast(gone) PROVE BufferIsFirst'
  <2>1. early = NoBuffer
    BY <1>4 DEF Broadcast, TasksFit, SseTypeOK, Unregistered
  <2>. QED
    BY <1>4, <2>1 DEF Broadcast
<1>5. CASE RelayEnds
  BY <1>5 DEF RelayEnds
<1>. QED
  BY <1>1, <1>2, <1>3, <1>4, <1>5 DEF SseNext

LEMMA FeedsKept ==
  ASSUME SseTypeOK, FeedsAreCurrent, NoGaps, PressedIsBehind,
         \A c \in Clients : Feed(c)' = Feed(c),
         UNCHANGED <<produced, eventCounter, missed>>,
         clients' \subseteq clients, pressed' \subseteq pressed
  PROVE  FeedsAreCurrent' /\ NoGaps' /\ PressedIsBehind'
<1>1. FeedsAreCurrent'
  BY DEF FeedsAreCurrent, EndsNow, SseTypeOK
<1>2. NoGaps'
  BY DEF NoGaps, Chained
<1>3. PressedIsBehind'
  BY DEF PressedIsBehind, SseTypeOK
<1>. QED
  BY <1>1, <1>2, <1>3

\* A feed that ends with the last message may be appended the next.
LEMMA ChainGrows ==
  ASSUME SseTypeOK, NEW s \in Seq(EventOf), s # <<>>, Chained(s), EndsNow(s)
  PROVE  Chained(Append(s, Event(produced + 1, eventCounter + 1)))
<1>. DEFINE e == Event(produced + 1, eventCounter + 1)
            t == Append(s, e)
<1>1. PICK n \in Nat \ {0} : n = Len(s)
  OBVIOUS
<1>2. Len(t) = n + 1 /\ t[n + 1] = e /\ \A i \in 1..n : t[i] = s[i]
  BY <1>1
<1>3. e.msg = produced + 1 /\ e.id = eventCounter + 1
  BY DEF Event
<1>4. n > 1 => s[n].msg = produced /\ s[n].id = eventCounter
  BY <1>1 DEF EndsNow, Event
<1>. HIDE DEF e, t
<1>5. ASSUME NEW i \in 1..Len(t)
      PROVE  IF i = 1 THEN t[i] = Endpoint
             ELSE i > 2 => t[i].msg = t[i - 1].msg + 1 /\ t[i].id = t[i - 1].id + 1
  <2>1. CASE i = n + 1
    BY <1>1, <1>2, <1>3, <1>4, <2>1
  <2>2. CASE i # n + 1
    <3>1. i \in 1..n /\ (i > 2 => i - 1 \in 1..n)
      BY <1>2, <2>2
    <3>2. IF i = 1 THEN s[i] = Endpoint
          ELSE i > 2 => s[i].msg = s[i - 1].msg + 1 /\ s[i].id = s[i - 1].id + 1
      BY <1>1, <3>1 DEF Chained
    <3>. QED
      BY <1>2, <3>1, <3>2
  <2>. QED
    BY <2>1, <2>2
<1>. QED
  BY <1>5 DEF Chained, e, t

LEMMA FeedsStep ==
  ASSUME SseTypeOK, TasksFit, BufferIsFirst, FeedsAreCurrent, NoGaps, PressedIsBehind, SseNext
  PROVE  FeedsAreCurrent' /\ NoGaps' /\ PressedIsBehind'
<1>1. ASSUME NEW c \in Clients, Register(c)
      PROVE  FeedsAreCurrent' /\ NoGaps' /\ PressedIsBehind'
  <2>1. PICK s : s = Prefix(<<Endpoint>> \o Drained, ChanCap)
    OBVIOUS
  <2>2. /\ s \in Seq(EventOf) /\ Len(s) \in 1..ChanCap /\ Len(s) <= Len(Drained) + 1
        /\ s[1] = Endpoint
        /\ \A i \in 2..Len(s) : s[i] = Event(i - 1, i - 1) /\ i - 1 <= produced
    BY <2>1, FirstChannel
  <2>3. /\ conn[c] = "checked" /\ chan' = [chan EXCEPT ![c] = s]
        /\ UNCHANGED <<produced, pressed, out>> /\ clients' = clients \cup {c}
        /\ eventCounter' = eventCounter + Len(Drained)
        /\ missed' = IF early # NoBuffer /\ produced > Len(s) - 1
                     THEN missed \cup {c} ELSE missed
    <3>1. conn[c] = "checked"
      BY <1>1, GotoType DEF Register
    <3>2. chan' = [chan EXCEPT ![c] = s] /\ chan'[c] = s
      BY <1>1, <2>1 DEF Register, SseTypeOK
    <3>. QED
      BY <1>1, <3>1, <3>2 DEF Register, CounterAfterDrain
  <2>4. Feed(c) = <<>> /\ out[c] = <<>> /\ c \notin clients /\ c \notin pressed
    BY <2>3, FeedType DEF TasksFit, Unregistered, SseTypeOK
  <2>5. Feed(c)' = s
    <3>1. Feed(c)' = <<>> \o s
      BY <2>3, <2>4 DEF Feed, SseTypeOK
    <3>. QED
      BY <2>2, <3>1
  <2>6. \A d \in Clients \ {c} : Feed(d)' = Feed(d)
    BY <2>3 DEF Feed, SseTypeOK
  <2>7. Chained(s)
    <3>1. \A i \in 3..Len(s) : i \in 2..Len(s) /\ i - 1 \in 2..Len(s) /\ (i - 1) - 1 = i - 2
      BY <2>2
    <3>2. \A i \in 3..Len(s) : s[i] = Event(i - 1, i - 1) /\ s[i - 1] = Event(i - 2, i - 2)
      BY <2>2, <3>1
    <3>3. ASSUME NEW i \in 3..Len(s)
          PROVE  s[i].msg = s[i - 1].msg + 1 /\ s[i].id = s[i - 1].id + 1
      <4>1. s[i] = Event(i - 1, i - 1) /\ s[i - 1] = Event(i - 2, i - 2)
        BY <3>2
      <4>2. s[i].msg = i - 1 /\ s[i].id = i - 1 /\ s[i - 1].msg = i - 2 /\ s[i - 1].id = i - 2
        BY <4>1 DEF Event
      <4>. QED
        BY <4>2
    <3>4. \A i \in 1..Len(s) : i = 1 \/ i = 2 \/ i \in 3..Len(s)
      BY <2>2
    <3>. QED
      BY <2>2, <3>3, <3>4 DEF Chained
  <2>8. NoGaps'
    BY <2>3, <2>5, <2>6, <2>7 DEF NoGaps, Chained
  <2>9. \A i \in 1..Len(s) : s[i].msg <= produced
    <3>1. ASSUME NEW i \in 2..Len(s) PROVE s[i].msg <= produced
      <4>1. s[i] = Event(i - 1, i - 1) /\ i - 1 <= produced
        BY <2>2
      <4>. QED
        BY <4>1 DEF Event
    <3>2. s[1].msg <= produced
      BY <2>2 DEF Endpoint, SseTypeOK
    <3>. QED
      BY <2>2, <3>1, <3>2
  <2>10. ASSUME c \notin missed', Len(s) > 1 PROVE s[Len(s)] = Event(produced, eventCounter')
    <3>1. CASE early = NoBuffer
      BY <2>2, <2>10, <3>1, DrainedIsNumbered
    <3>2. CASE early # NoBuffer
      <4>1. produced <= Len(s) - 1 /\ produced \in Nat
        BY <2>2, <2>3, <2>10, <3>2 DEF SseTypeOK
      <4>2. Len(Drained) = Len(early) /\ eventCounter = 0 /\ Len(early) <= produced
        BY <3>2, DrainedIsNumbered DEF BufferIsFirst
      <4>3. Len(Drained) \in Nat /\ Len(s) = produced + 1 /\ Len(Drained) = produced
        BY <2>2, <4>1, <4>2, DrainedIsNumbered
      <4>4. eventCounter' = produced /\ Len(s) - 1 = produced
        BY <2>3, <4>1, <4>2, <4>3
      <4>. QED
        BY <2>2, <2>10, <4>4
    <3>. QED
      BY <3>1, <3>2
  <2>11. \A d \in clients : eventCounter' = eventCounter
    <3>1. CASE early = NoBuffer
      BY <2>3, <3>1, DrainedIsNumbered DEF SseTypeOK
    <3>2. CASE early # NoBuffer
      BY <3>2 DEF BufferIsFirst, TasksFit, Unregistered, SseTypeOK
    <3>. QED
      BY <3>1, <3>2
  <2>12. FeedsAreCurrent'
    <3>1. \A d \in Clients : \A i \in 1..Len(Feed(d)') : Feed(d)'[i].msg <= produced'
      BY <2>3, <2>5, <2>6, <2>9 DEF FeedsAreCurrent
    <3>2. \A d \in clients' : Feed(d)' # <<>>
      BY <2>2, <2>3, <2>5, <2>6 DEF FeedsAreCurrent, SseTypeOK
    <3>3. ASSUME NEW d \in clients' \ missed' PROVE EndsNow(Feed(d))'
      <4>1. CASE d = c
        BY <2>3, <2>5, <2>10, <3>3, <4>1 DEF EndsNow
      <4>2. CASE d # c
        <5>1. d \in clients \ missed /\ d \in Clients \ {c} /\ eventCounter' = eventCounter
          BY <2>3, <2>11, <3>3, <4>2 DEF SseTypeOK
        <5>. QED
          BY <2>3, <2>6, <5>1 DEF EndsNow, FeedsAreCurrent
      <4>. QED
        BY <4>1, <4>2
    <3>. QED
      BY <3>1, <3>2, <3>3 DEF FeedsAreCurrent
  <2>13. PressedIsBehind'
    BY <2>3, <2>4, <2>6 DEF PressedIsBehind, SseTypeOK
  <2>. QED
    BY <2>8, <2>12, <2>13
<1>2. ASSUME NEW c \in Clients,
             \/ CheckLimit(c) \/ CountClient(c) \/ WriteEvent(c)
             \/ StreamEnds(c) \/ RemoveClient(c) \/ UncountClient(c)
      PROVE  FeedsAreCurrent' /\ NoGaps' /\ PressedIsBehind'
  <2>1. /\ \A d \in Clients : Feed(d)' = Feed(d)
        /\ UNCHANGED <<eventCounter, missed>> /\ pressed' \subseteq pressed
    BY <1>2, FeedsStay
  <2>2. produced' = produced /\ clients' \subseteq clients
    BY <1>2 DEF CheckLimit, CountClient, WriteEvent, StreamEnds, RemoveClient, UncountClient
  <2>. QED
    BY <2>1, <2>2, FeedsKept
<1>3. CASE BufferEarly
  <2>1. /\ clients' = {} /\ pressed' = {}
        /\ \A c \in Clients : Feed(c)' = <<>>
    BY <1>3 DEF BufferEarly, BufferIsFirst, TasksFit, SseTypeOK, Feed
  <2>. QED
    BY <2>1 DEF FeedsAreCurrent, NoGaps, Chained, PressedIsBehind
<1>4. ASSUME NEW gone \in SUBSET clients, Broadcast(gone)
      PROVE  FeedsAreCurrent' /\ NoGaps' /\ PressedIsBehind'
  <2>. DEFINE e == Event(produced + 1, eventCounter + 1)
  <2>1. /\ produced' = produced + 1 /\ eventCounter' = eventCounter + 1
        /\ missed' = missed \cup Full /\ clients' = clients \ gone
        /\ pressed' = Full \ gone /\ gone \subseteq Full /\ Full \subseteq clients
        /\ clients \subseteq Clients /\ produced \in Nat
    BY <1>4 DEF Broadcast, StillPressed, Overdue, Full, SseTypeOK
  <2>2. \A c \in Clients : Feed(c)' = IF c \in clients \ Full THEN Append(Feed(c), e) ELSE Feed(c)
    BY <1>4, BroadcastFeeds
  <2>3. e \in EventOf /\ e.msg = produced + 1 /\ e = Event(produced', eventCounter')
    <3>1. produced + 1 \in 0..MaxMsgs /\ eventCounter + 1 \in Nat
      BY <1>4 DEF Broadcast, SseTypeOK
    <3>2. e \in EventOf
      BY <3>1, EventTypes
    <3>3. e.msg = produced + 1
      BY DEF Event
    <3>. QED
      BY <2>1, <3>2, <3>3
  <2>. HIDE DEF e
  <2>4. ASSUME NEW c \in clients \ Full
        PROVE  /\ Feed(c)' \in Seq(EventOf) /\ Len(Feed(c)') = Len(Feed(c)) + 1
               /\ Len(Feed(c)) \in Nat
               /\ Feed(c)'[Len(Feed(c)) + 1] = e
               /\ \A i \in 1..Len(Feed(c)) : Feed(c)'[i] = Feed(c)[i]
    <3>1. c \in Clients /\ Feed(c)' = Append(Feed(c), e)
      BY <2>1, <2>2, <2>4
    <3>2. Feed(c) \in Seq(EventOf)
      BY <3>1, FeedType
    <3>. QED
      BY <2>3, <3>1, <3>2
  <2>5. FeedsAreCurrent'
    <3>1. ASSUME NEW c \in Clients, NEW i \in 1..Len(Feed(c)') PROVE Feed(c)'[i].msg <= produced'
      <4>1. CASE c \in clients \ Full
        <5>1. CASE i = Len(Feed(c)) + 1
          BY <2>1, <2>3, <2>4, <4>1, <5>1
        <5>2. CASE i # Len(Feed(c)) + 1
          <6>1. i \in 1..Len(Feed(c)) /\ Feed(c)'[i] = Feed(c)[i]
            BY <2>4, <3>1, <4>1, <5>2
          <6>. QED
            BY <2>1, <6>1, FeedType DEF FeedsAreCurrent
        <5>. QED
          BY <5>1, <5>2
      <4>2. CASE c \notin clients \ Full
        <5>1. Feed(c)' = Feed(c)
          BY <2>2, <4>2
        <5>2. i \in 1..Len(Feed(c)) /\ Feed(c)'[i] = Feed(c)[i]
          BY <3>1, <5>1
        <5>. QED
          BY <2>1, <5>2, FeedType DEF FeedsAreCurrent
      <4>. QED
        BY <4>1, <4>2
    <3>2. ASSUME NEW c \in clients' PROVE Feed(c)' # <<>>
      <4>1. CASE c \in clients \ Full
        BY <2>4, <4>1
      <4>2. CASE c \notin clients \ Full
        BY <2>1, <2>2, <3>2, <4>2 DEF FeedsAreCurrent
      <4>. QED
        BY <4>1, <4>2
    <3>3. ASSUME NEW c \in clients' \ missed' PROVE EndsNow(Feed(c))'
      <4>1. c \in clients \ Full
        BY <2>1, <3>3
      <4>. QED
        BY <2>3, <2>4, <4>1 DEF EndsNow
    <3>. QED
      BY <3>1, <3>2, <3>3 DEF FeedsAreCurrent
  <2>6. NoGaps'
    <3>1. ASSUME NEW c \in Clients \ missed' PROVE Chained(Feed(c)')
      <4>1. Chained(Feed(c))
        BY <2>1, <3>1 DEF NoGaps
      <4>2. CASE c \in clients \ Full
        <5>1. Feed(c) # <<>> /\ EndsNow(Feed(c)) /\ Feed(c) \in Seq(EventOf)
          BY <2>1, <3>1, <4>2, FeedType DEF FeedsAreCurrent
        <5>2. Chained(Append(Feed(c), e))
          BY <4>1, <5>1, ChainGrows DEF e
        <5>. QED
          BY <2>2, <3>1, <4>2, <5>2
      <4>3. CASE c \notin clients \ Full
        BY <2>2, <3>1, <4>1, <4>3
      <4>. QED
        BY <4>2, <4>3
    <3>. QED
      BY <3>1 DEF NoGaps, Chained
  <2>7. PressedIsBehind'
    <3>1. ASSUME NEW c \in pressed' PROVE Feed(c)'[Len(Feed(c)')].msg < produced'
      <4>1. c \in Full /\ c \in Clients /\ c \in clients /\ Feed(c)' = Feed(c)
        BY <2>1, <2>2, <3>1
      <4>2. Len(Feed(c)) \in 1..Len(Feed(c))
        BY <4>1, FeedType DEF FeedsAreCurrent
      <4>3. Feed(c)[Len(Feed(c))].msg <= produced /\ Feed(c)[Len(Feed(c))].msg \in Nat
        BY <4>1, <4>2, FeedType DEF FeedsAreCurrent
      <4>. QED
        BY <2>1, <4>1, <4>3
    <3>. QED
      BY <3>1 DEF PressedIsBehind
  <2>. QED
    BY <2>5, <2>6, <2>7
<1>5. CASE RelayEnds
  <2>1. /\ UNCHANGED <<produced, eventCounter, missed, clients, pressed>>
        /\ \A c \in Clients : Feed(c)' = Feed(c)
    BY <1>5 DEF RelayEnds, Feed
  <2>. QED
    BY <2>1, FeedsKept
<1>. QED
  BY <1>1, <1>2, <1>3, <1>4, <1>5 DEF SseNext

-----------------------------------------------------------------------------
(* The theorems                                                            *)

LEMMA SseStutters ==
  ASSUME SseIInv, UNCHANGED svars
  PROVE  SseIInv'
<1>. USE DEF svars
<1>1. \A c \in Clients : Feed(c)' = Feed(c)
  BY DEF Feed
<1>2. SseTypeOK' /\ TasksFit' /\ BufferIsFirst'
  BY <1>1 DEF SseIInv, SseTypeOK, TasksFit, BufferIsFirst
<1>3. GaugesCount'
  <2>1. Served' = Served /\ Left' = Left
    BY DEF Served, Left
  <2>. QED
    BY <2>1 DEF SseIInv, GaugesCount
<1>4. FeedsAreCurrent' /\ NoGaps' /\ PressedIsBehind'
  BY <1>1, FeedsKept DEF SseIInv
<1>. QED
  BY <1>2, <1>3, <1>4 DEF SseIInv

\* In every reachable state, for any finite set of clients and any limits: the
\* early buffer stands for all that came before the first client, and the feed
\* of a client that missed nothing ends with the last message and event id
\* (handle_sse_connect(), broadcast_locked(), disconnect_client()).
THEOREM SseInvariant == SseSpec => []SseIInv
<1>1. ASSUME SseIInv, SseNext PROVE SseIInv'
  BY <1>1, TypesStep, TasksStep, GaugesStep, BufferStep, FeedsStep DEF SseIInv
<1>2. SseIInv /\ [SseNext]_svars => SseIInv'
  BY <1>1, SseStutters
<1>. QED
  BY SseInitially, <1>2, PTL DEF SseSpec

\* Every variable keeps its type, and neither a channel nor the early buffer
\* outgrows its capacity.
THEOREM SseTypesHold == SseSpec => []SseTypeOK
  BY SseInvariant, PTL DEF SseIInv

\* A client that keeps up gets every message from its first on, in order and
\* with event ids that grow by one, across the hand-over from the buffer.
THEOREM FeedsHaveNoGaps == SseSpec => []NoGaps
  BY SseInvariant, PTL DEF SseIInv

\* The clock of BACKPRESSURE_TIMEOUT runs only for clients that are behind.
THEOREM PressureIsReal == SseSpec => []PressedIsBehind
  BY SseInvariant, PTL DEF SseIInv

\* active_clients and client_disconnects are exact up to the tasks on their
\* way, whoever removes a client and however often it is tried.
THEOREM SseGaugesAreExact == SseSpec => []GaugesExact
<1>1. SseIInv => GaugesExact
  <2>. DEFINE at(where) == {c \in Clients : conn[c] = where}
              registered == {c \in Clients : conn[c] \notin {"new", "refused", "checked"}}
  <2>. SUFFICES ASSUME SseIInv
       PROVE  /\ active = Cardinality(clients \ at("uncounted")) + Cardinality(at("removed"))
              /\ disconnects = Cardinality(registered \ clients) - Cardinality(at("removed"))
    BY DEF GaugesExact
  <2>1. active = Cardinality(Served) /\ disconnects = Cardinality(Left)
    BY DEF SseIInv, GaugesCount
  <2>2. /\ Served = (clients \ at("uncounted")) \cup at("removed")
        /\ (clients \ at("uncounted")) \cap at("removed") = {}
        /\ Left = (registered \ clients) \ at("removed")
        /\ (registered \ clients) \cap at("removed") = at("removed")
    BY DEF SseIInv, SseTypeOK, TasksFit, Served, Left, Unregistered
  <2>3. /\ clients \ at("uncounted") \in SUBSET Clients /\ at("removed") \in SUBSET Clients
        /\ registered \ clients \in SUBSET Clients
    BY DEF SseIInv, SseTypeOK
  <2>4. /\ IsFiniteSet(clients \ at("uncounted")) /\ IsFiniteSet(at("removed"))
        /\ IsFiniteSet(registered \ clients)
        /\ Cardinality(clients \ at("uncounted")) \in Nat
        /\ Cardinality(at("removed")) \in Nat /\ Cardinality(registered \ clients) \in Nat
    BY <2>3, PartsAreCounted
  <2>. HIDE DEF at, registered
  <2>5. Cardinality(Served) = Cardinality(clients \ at("uncounted")) + Cardinality(at("removed"))
    <3>. DEFINE A == clients \ at("uncounted")
                B == at("removed")
    <3>1. Cardinality(A \cup B) = Cardinality(A) + Cardinality(B) - Cardinality(A \cap B)
      BY <2>4, FS_Union
    <3>2. Cardinality(A \cap B) = 0
      BY <2>2, FS_EmptySet
    <3>. QED
      BY <2>2, <2>4, <3>1, <3>2
  <2>6. Cardinality(Left) = Cardinality(registered \ clients) - Cardinality(at("removed"))
    BY <2>2, <2>4, FS_Difference
  <2>. QED
    BY <2>1, <2>5, <2>6
<1>. QED
  BY <1>1, SseInvariant, PTL
=============================================================================
