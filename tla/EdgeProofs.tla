----------------------------- MODULE EdgeProofs -----------------------------
(***************************************************************************)
(* Proofs about the five parts at the edge of the gateway. None of them    *)
(* shares state with another:                                              *)
(*   HttpToStdio  the lines of stdin go out once and in order, what        *)
(*                answers them comes out in that order, the handshake goes *)
(*                first, the session id stays;                             *)
(*   SseStream    the events of a stream do not depend on the chunks it    *)
(*                comes in;                                                *)
(*   Shutdown     no signal is lost between wait()'s look at the flag and  *)
(*                its read of the pipe;                                    *)
(*   OAuth2       a code buys one token, a request is admitted exactly     *)
(*                while a token that was earned lives, and an honest       *)
(*                redemption is served;                                    *)
(*   FrontDoor    CORS lets in exactly the pages that are configured, and  *)
(*                a custom header is in an answer once.                    *)
(***************************************************************************)
EXTENDS HttpToStdio, SseStream, Shutdown, OAuth2, FrontDoor, FiniteSetTheorems,
        WellFoundedInduction, TLAPS

-----------------------------------------------------------------------------
(* The HTTP client, for any scripts of lines and any channel bound.        *)

\* What the phase, the queues, the log level and the session id have to do with each other.
Handshake == QueuesTypeOK /\ PhaseFits /\ LevelFits /\ SessionFits

\* A line of the script is a message that bears its number.
LEMMA LinesAreTyped ==
  ASSUME QueuesTypeOK, NEW i \in 1..Len(script)
  PROVE  Line(i) \in LineMessage /\ Line(i).name = i
<1>1. script \in Seq(LineTypes)
  BY ScriptsAreLines DEF QueuesTypeOK
<1>2. script[i] \in LineTypes /\ i \in Nat \ {0}
  BY <1>1
<1>. QED
  BY <1>2 DEF Line, Message, LineMessage

\* What the two messages of the handshake differ from the lines in.
LEMMA Kinds ==
  /\ \A m \in LineMessage : m # SyntheticInit /\ m # Initialized /\ m.type # "initialized"
  /\ LineMessage \subseteq Sendable /\ SyntheticInit \in Sendable /\ Initialized \in Sendable
  /\ SyntheticInit # Initialized /\ SyntheticInit.type = "initialize"
  BY DEF LineMessage, Sendable, SyntheticInit, Initialized, Message, LineTypes

\* The handshake, begun and kept: one lemma per action.
LEMMA HandshakeInit == HttpInit => Handshake
<1>. SUFFICES ASSUME HttpInit PROVE Handshake
  OBVIOUS
<1>1. Len(script) \in Nat
  BY ScriptsAreLines DEF HttpInit
<1>2. QueuesTypeOK
  BY <1>1 DEF HttpInit, QueuesTypeOK
<1>. QED
  BY <1>2 DEF HttpInit, Handshake, PhaseFits, LevelFits, SessionFits, Idle

LEMMA ReadLineStep ==
  ASSUME Handshake, ReadLine
  PROVE  Handshake'
<1>1. /\ read' = read + 1 /\ read < Len(script) /\ chan' = Append(chan, Line(read + 1))
      /\ UNCHANGED <<script, phase, queue, level, outbox, posted, wire, got, sid, server>>
  BY DEF ReadLine, taskVars
<1>2. Len(script) \in Nat /\ read \in 0..Len(script)
  BY ScriptsAreLines DEF Handshake, QueuesTypeOK
<1>3. read + 1 \in 1..Len(script)
  BY <1>1, <1>2
<1>4. Line(read + 1) \in LineMessage
  BY <1>3, LinesAreTyped DEF Handshake
<1>5. QueuesTypeOK'
  BY <1>1, <1>2, <1>3, <1>4 DEF Handshake, QueuesTypeOK
<1>. QED
  BY <1>1, <1>5 DEF Handshake, PhaseFits, LevelFits, SessionFits

LEMMA TakeLineStep ==
  ASSUME Handshake, TakeLine
  PROVE  Handshake'
<1>1. /\ level = "idle" /\ chan # <<>> /\ chan' = Tail(chan)
      /\ UNCHANGED <<script, read, posted, wire, got, sid, server>>
      /\ outbox = <<>> /\ wire = Idle
  BY DEF TakeLine, Handshake, LevelFits
<1>2. PICK m : m = Head(chan)
  OBVIOUS
<1>3. m \in LineMessage /\ chan' \in Seq(LineMessage)
  BY <1>1, <1>2 DEF Handshake, QueuesTypeOK
<1>4. SessionFits'
  BY <1>1 DEF Handshake, SessionFits
<1>5. QueuesTypeOK' <=> queue' \in Seq(LineMessage) /\ outbox' \in Seq(Sendable)
  BY <1>1, <1>3 DEF Handshake, QueuesTypeOK
<1>6. queue \in Seq(LineMessage) /\ posted \in Seq(Sendable) /\ wire.type = "idle"
  BY <1>1 DEF Handshake, QueuesTypeOK, Idle
<1>7. CASE ~IsMessage(m.type)
  BY <1>1, <1>2, <1>4, <1>5, <1>6, <1>7 DEF TakeLine, Handshake, PhaseFits, LevelFits, QueuesTypeOK
<1>8. CASE IsMessage(m.type)
  <2>1. PICK r : r = HandleStdin(phase, queue, m)
    OBVIOUS
  <2>2. /\ phase' = r.phase /\ queue' = r.queue /\ outbox' = r.post
        /\ level' = IF r.post = <<>> THEN "idle" ELSE "first"
    BY <1>2, <1>8, <2>1 DEF TakeLine
  <2>3. CASE phase = Pending
    <3>1. posted = <<>> /\ queue = <<>>
      BY <2>3 DEF Handshake, PhaseFits, Pending, Ready, Waiting
    <3>2. CASE m.type = "initialize"
      <4>1. phase' = Waiting(m) /\ queue' = <<>> /\ outbox' = <<m>>
        BY <2>1, <2>2, <2>3, <3>1, <3>2 DEF HandleStdin, Pending
      <4>2. <<m>> \in Seq(Sendable) /\ Len(<<m>>) = 1 /\ <<m>> # <<>>
        BY <1>3, Kinds
      <4>3. PhaseFits'
        BY <1>1, <1>3, <3>1, <3>2, <4>1 DEF PhaseFits, Waiting
      <4>4. LevelFits'
        BY <1>1, <1>6, <2>2, <4>1, <4>2 DEF LevelFits
      <4>. QED
        BY <1>4, <1>5, <4>1, <4>2, <4>3, <4>4 DEF Handshake
    <3>3. CASE m.type # "initialize"
      <4>1. phase' = Waiting(SyntheticInit) /\ queue' = Append(queue, m) /\ outbox' = <<SyntheticInit>>
        BY <2>1, <2>2, <2>3, <3>3 DEF HandleStdin, Pending, Queued
      <4>2. <<SyntheticInit>> \in Seq(Sendable) /\ Len(<<SyntheticInit>>) = 1 /\ <<SyntheticInit>> # <<>>
        BY Kinds
      <4>3. PhaseFits'
        BY <1>1, <3>1, <4>1, Kinds DEF PhaseFits, Waiting
      <4>4. LevelFits'
        BY <1>1, <1>6, <2>2, <4>1, <4>2 DEF LevelFits
      <4>5. queue' \in Seq(LineMessage)
        BY <1>3, <1>6, <4>1
      <4>. QED
        BY <1>4, <1>5, <4>1, <4>2, <4>3, <4>4, <4>5 DEF Handshake
    <3>. QED
      BY <3>2, <3>3
  <2>4. CASE phase.kind = "waiting"
    <3>1. phase' = phase /\ queue' = Append(queue, m) /\ outbox' = <<>>
      BY <2>1, <2>2, <2>4 DEF HandleStdin, Queued
    <3>2. queue' \in Seq(LineMessage) /\ <<>> \in Seq(Sendable)
      BY <1>3, <1>6, <3>1
    <3>3. LevelFits'
      BY <1>1, <2>2, <3>1 DEF LevelFits
    <3>4. PhaseFits'
      BY <1>1, <2>4, <3>1 DEF Handshake, PhaseFits, Pending, Ready
    <3>. QED
      BY <1>4, <1>5, <3>1, <3>2, <3>3, <3>4 DEF Handshake
  <2>5. CASE phase = Ready
    <3>1. phase' = phase /\ queue' = queue /\ outbox' = <<m>>
      BY <2>1, <2>2, <2>5 DEF HandleStdin, Ready
    <3>2. <<m>> \in Seq(Sendable) /\ Len(<<m>>) = 1 /\ <<m>> # <<>>
      BY <1>3, Kinds
    <3>3. LevelFits'
      BY <1>1, <1>6, <2>2, <3>1, <3>2 DEF LevelFits
    <3>4. /\ queue = <<>> /\ posted # <<>> /\ posted[1].type = "initialize" /\ ResponseTo(posted[1]) \in got
          /\ posted[1] = SyntheticInit => Len(posted \o outbox) > 1
          /\ Len(posted \o outbox) > 1 =>
               (posted[1] = SyntheticInit <=> (posted \o outbox)[2] = Initialized)
      BY <2>5 DEF Handshake, PhaseFits, Pending, Ready, Waiting
    <3>5. posted \o outbox = posted
      BY <1>1, <1>6
    <3>6. PICK s : s = posted \o <<m>>
      OBVIOUS
    <3>7. Len(s) = Len(posted) + 1 /\ \A k \in 1..Len(posted) : s[k] = posted[k]
      BY <1>6, <3>6, <3>2
    <3>8. s[Len(posted) + 1] = m /\ Len(posted) \in Nat \ {0}
      BY <1>6, <3>2, <3>4, <3>6
    <3>9. /\ posted[1] = SyntheticInit => Len(s) > 1
          /\ Len(s) > 1 => (posted[1] = SyntheticInit <=> s[2] = Initialized)
      <4>1. CASE Len(posted) = 1
        BY <1>3, <3>4, <3>5, <3>7, <3>8, <4>1, Kinds
      <4>2. CASE Len(posted) > 1
        BY <3>4, <3>5, <3>7, <3>8, <4>2
      <4>3. Len(posted) = 1 \/ Len(posted) > 1
        <5>1. Len(posted) \in Nat /\ Len(posted) # 0
          BY <1>6, <3>4
        <5>. QED
          BY <5>1
      <4>. QED
        BY <4>1, <4>2, <4>3
    <3>10. PhaseFits'
      BY <1>1, <2>5, <3>1, <3>4, <3>6, <3>9 DEF PhaseFits
    <3>. QED
      BY <1>4, <1>5, <1>6, <3>1, <3>2, <3>3, <3>10 DEF Handshake
  <2>. QED
    BY <2>3, <2>4, <2>5 DEF Handshake, PhaseFits
<1>. QED
  BY <1>7, <1>8

\* A POST takes the head of the outbox.
LEMMA HeadMoves ==
  ASSUME NEW S, NEW s \in Seq(S), NEW t \in Seq(S), t # <<>>
  PROVE  /\ Append(s, Head(t)) \o Tail(t) = s \o t
         /\ Append(s, Head(t)) \in Seq(S) /\ Tail(t) \in Seq(S)
         /\ Len(Append(s, Head(t))) = Len(s) + 1 /\ Append(s, Head(t)) # <<>>
         /\ Len(Tail(t)) = Len(t) - 1
         /\ Append(s, Head(t))[1] = IF s = <<>> THEN Head(t) ELSE s[1]
<1>1. Head(t) \in S /\ Tail(t) \in Seq(S) /\ Len(Tail(t)) = Len(t) - 1
  OBVIOUS
<1>2. Append(s, Head(t)) \o Tail(t) = s \o t
  OBVIOUS
<1>3. PICK h \in S : h = Head(t)
  BY <1>1
<1>4. Append(s, h) \in Seq(S) /\ Len(Append(s, h)) = Len(s) + 1 /\ Append(s, h) # <<>>
  OBVIOUS
<1>5. Append(s, h)[1] = IF s = <<>> THEN h ELSE s[1]
  OBVIOUS
<1>. QED
  BY <1>1, <1>2, <1>3, <1>4, <1>5

LEMMA PostStep ==
  ASSUME Handshake, Post
  PROVE  Handshake'
<1>1. /\ outbox # <<>> /\ wire = Idle /\ posted' = Append(posted, Head(outbox))
      /\ outbox' = Tail(outbox) /\ wire' = Sent(sid)
      /\ UNCHANGED <<script, read, chan, phase, queue, level, got, sid, server>>
  BY DEF Post
<1>2. posted \in Seq(Sendable) /\ outbox \in Seq(Sendable)
  BY DEF Handshake, QueuesTypeOK
<1>3. posted' \o outbox' = posted \o outbox /\ posted' \in Seq(Sendable) /\ outbox' \in Seq(Sendable)
      /\ posted' # <<>> /\ Len(outbox') = Len(outbox) - 1
      /\ posted'[1] = IF posted = <<>> THEN Head(outbox) ELSE posted[1]
  BY <1>1, <1>2, HeadMoves
<1>4. QueuesTypeOK'
  BY <1>1, <1>3 DEF Handshake, QueuesTypeOK
<1>5. SessionFits'
  BY <1>1 DEF Handshake, SessionFits, Sent
<1>6. LevelFits'
  <2>1. Len(outbox) = 1 => outbox' = <<>>
    BY <1>2, <1>3
  <2>. QED
    BY <1>1, <2>1 DEF Handshake, LevelFits, Sent, Idle
<1>7. PhaseFits'
  <2>1. CASE phase = Pending
    BY <1>1, <2>1 DEF Handshake, PhaseFits, Pending, Ready, Waiting
  <2>2. CASE phase.kind = "waiting"
    <3>1. posted = <<>> /\ outbox = <<phase.init>>
      BY <1>1, <2>2 DEF Handshake, PhaseFits, Pending, Ready
    <3>2. posted' = <<phase.init>> /\ outbox' = <<>>
      BY <1>1, <3>1
    <3>3. /\ phase = Waiting(phase.init) /\ phase.init \in LineMessage \cup {SyntheticInit}
          /\ phase.init.type = "initialize"
      BY <2>2 DEF Handshake, PhaseFits, Pending, Ready
    <3>4. phase' = phase
      BY <1>1
    <3>. QED
      BY <2>2, <3>2, <3>3, <3>4 DEF PhaseFits
  <2>3. CASE phase = Ready
    <3>1. posted # <<>>
      BY <2>3 DEF Handshake, PhaseFits, Pending, Ready, Waiting
    <3>2. posted'[1] = posted[1]
      BY <1>3, <3>1
    <3>. QED
      BY <1>1, <1>3, <2>3, <3>2 DEF Handshake, PhaseFits, Pending, Ready, Waiting
  <2>. QED
    BY <2>1, <2>2, <2>3 DEF Handshake, PhaseFits
<1>. QED
  BY <1>4, <1>5, <1>6, <1>7 DEF Handshake

\* Every reply of the server is one the client can read.
LEMMA RepliesTyped ==
  ASSUME NEW m, NEW r \in Replies(m)
  PROVE  /\ r.type \in {"accepted", "json", "unknown", "sse"} /\ r.sid = NoSession
         /\ [r EXCEPT !.sid = Session].type = r.type /\ [r EXCEPT !.sid = Session].sid = Session
  BY DEF Replies, Body, Stream

LEMMA ServerStep ==
  ASSUME Handshake, ServerReplies \/ ServerDeletes
  PROVE  Handshake'
<1>1. /\ UNCHANGED <<script, read, chan, phase, queue, level, outbox, posted, got, sid>>
  BY DEF ServerReplies, ServerDeletes, taskVars
<1>2. wire # Idle => wire' # Idle
  <2>1. CASE ServerDeletes
    BY <2>1 DEF ServerDeletes, taskVars
  <2>2. CASE wire' = HttpError
    BY <2>2 DEF HttpError, Idle
  <2>3. CASE \E m : wire' \in Replies(m)
    BY <2>3, RepliesTyped DEF Idle
  <2>4. CASE \E m : \E r \in Replies(m) : wire' = [r EXCEPT !.sid = Session]
    BY <2>4, RepliesTyped DEF Idle
  <2>. QED
    BY <2>1, <2>2, <2>3, <2>4 DEF ServerReplies
<1>3. wire = Idle => wire' = wire
  BY DEF ServerReplies, ServerDeletes, taskVars, Idle
<1>4. QueuesTypeOK' /\ PhaseFits'
  BY <1>1 DEF Handshake, QueuesTypeOK, PhaseFits
<1>5. LevelFits'
  BY <1>1, <1>2, <1>3 DEF Handshake, LevelFits, Idle
<1>6. SessionFits'
  <2>1. CASE ServerReplies /\ wire' = HttpError
    BY <1>1, <2>1 DEF ServerReplies, HttpError, Handshake, SessionFits
  <2>2. CASE /\ wire.type = "sent" /\ UNCHANGED server
             /\ \/ server = "stateless"
                \/ wire.sid = Session /\ server = "open"
             /\ \E m : wire' \in Replies(m)
    BY <1>1, <2>2, RepliesTyped DEF Handshake, SessionFits
  <2>3. CASE /\ wire.type = "sent" /\ server = NoSession /\ server' = "open"
             /\ \E m : \E r \in Replies(m) : wire' = [r EXCEPT !.sid = Session]
    BY <1>1, <2>3, RepliesTyped DEF Handshake, SessionFits, NoSession
  <2>4. CASE ServerDeletes
    BY <1>1, <2>4 DEF ServerDeletes, taskVars, Handshake, SessionFits
  <2>. QED
    BY <2>1, <2>2, <2>3, <2>4 DEF ServerReplies
<1>. QED
  BY <1>4, <1>5, <1>6 DEF Handshake

LEMMA ReceiveStep ==
  ASSUME Handshake, Receive
  PROVE  Handshake'
<1>1. /\ wire.type \notin {"idle", "sent", "error"} /\ wire' = Idle /\ sid' = Captured(wire)
      /\ UNCHANGED <<script, read, chan, posted, server>>
  BY DEF Receive
<1>2. PICK msgs, r : /\ r = HandleResponse(phase, queue, msgs)
                     /\ got' = got \cup ToSet(msgs) /\ phase' = r.phase /\ queue' = r.queue
                     /\ outbox' = Left(r) /\ level' = IF Left(r) = <<>> THEN "idle" ELSE "follow"
  BY DEF Receive
<1>3. SessionFits'
  BY <1>1 DEF Handshake, SessionFits, Captured, Idle
<1>4. /\ posted \in Seq(Sendable) /\ outbox \in Seq(Sendable) /\ queue \in Seq(LineMessage)
      /\ QueuesTypeOK' <=> queue' \in Seq(LineMessage) /\ outbox' \in Seq(Sendable)
  BY <1>1 DEF Handshake, QueuesTypeOK
<1>5. level # "idle" /\ (level = "first" => outbox = <<>>) /\ level \in {"first", "follow"}
  BY <1>1 DEF Handshake, LevelFits, Idle
<1>6. CASE phase.kind = "waiting" /\ \E m \in ToSet(msgs) : IsInitAnswer(m, phase.init)
  <2>1. PICK i : i = phase.init
    OBVIOUS
  <2>2. /\ i \in LineMessage \cup {SyntheticInit} /\ i.type = "initialize" /\ level = "first"
        /\ posted = <<i>> /\ ResponseTo(i) \in ToSet(msgs)
    BY <1>5, <1>6, <2>1 DEF Handshake, PhaseFits, LevelFits, Pending, Ready, IsInitAnswer
  <2>3. r.phase = Ready /\ r.queue = <<>> /\ r.post = FollowUps(i, queue)
    BY <1>2, <1>6, <2>1 DEF HandleResponse, Kept
  <2>4. PICK q \in Seq(LineMessage) : q = queue
    BY <1>4
  <2>5. PICK f : f = FollowUps(i, q)
    OBVIOUS
  <2>6. f = IF i = SyntheticInit THEN <<Initialized>> \o q ELSE q
    BY <2>5 DEF FollowUps
  <2>7. /\ phase' = Ready /\ queue' = <<>> /\ outbox' = f
        /\ level' = IF f = <<>> THEN "idle" ELSE "follow"
    BY <1>2, <2>2, <2>3, <2>4, <2>5 DEF Left
  <2>8. /\ f \in Seq(Sendable)
        /\ i = SyntheticInit => Len(f) > 0 /\ f[1] = Initialized
        /\ i # SyntheticInit /\ Len(f) > 0 => f[1] # Initialized
    <3>1. CASE i = SyntheticInit
      <4>1. f = <<Initialized>> \o q /\ q \in Seq(Sendable) /\ Initialized \in Sendable
        BY <2>6, <3>1, Kinds
      <4>. QED
        BY <3>1, <4>1
    <3>2. CASE i # SyntheticInit
      <4>1. f = q /\ q \in Seq(Sendable)
        BY <2>6, <3>2, Kinds
      <4>2. Len(q) > 0 => q[1] \in LineMessage
        OBVIOUS
      <4>. QED
        BY <3>2, <4>1, <4>2, Kinds
    <3>. QED
      BY <3>1, <3>2
  <2>9. PICK s : s = <<i>> \o f
    OBVIOUS
  <2>10. Len(s) = Len(f) + 1 /\ s[1] = i /\ (Len(f) > 0 => s[2] = f[1]) /\ Len(f) \in Nat
    BY <2>2, <2>8, <2>9
  <2>11. /\ i = SyntheticInit => Len(s) > 1
         /\ Len(s) > 1 => (i = SyntheticInit <=> s[2] = Initialized)
    BY <2>8, <2>10
  <2>12. posted' # <<>> /\ posted'[1] = i /\ posted' \o outbox' = s /\ ResponseTo(i) \in got'
    BY <1>1, <1>2, <2>2, <2>7, <2>9
  <2>13. PhaseFits'
    BY <2>2, <2>7, <2>11, <2>12 DEF PhaseFits
  <2>14. LevelFits'
    BY <1>1, <2>7 DEF LevelFits
  <2>15. QueuesTypeOK'
    BY <1>4, <2>7, <2>8
  <2>. QED
    BY <1>3, <2>13, <2>14, <2>15 DEF Handshake
<1>7. CASE ~(phase.kind = "waiting" /\ \E m \in ToSet(msgs) : IsInitAnswer(m, phase.init))
  <2>1. r.phase = phase /\ r.queue = queue /\ r.post = <<>>
    BY <1>2, <1>7 DEF HandleResponse
  <2>2. /\ phase' = phase /\ queue' = queue /\ outbox' = outbox
        /\ level' = IF outbox = <<>> THEN "idle" ELSE "follow"
        /\ (level' = "follow" => level = "follow")
    <3>1. CASE level = "first"
      <4>1. outbox' = <<>> /\ level' = "idle" /\ outbox = <<>>
        BY <1>2, <1>5, <2>1, <3>1 DEF Left
      <4>. QED
        BY <1>2, <2>1, <4>1
    <3>2. CASE level = "follow"
      <4>1. Left(r) = outbox
        BY <3>2 DEF Left
      <4>. QED
        BY <1>2, <2>1, <3>2, <4>1
    <3>. QED
      BY <1>5, <3>1, <3>2
  <2>3. QueuesTypeOK'
    BY <1>4, <2>2
  <2>4. PhaseFits'
    BY <1>1, <1>2, <2>2 DEF Handshake, PhaseFits
  <2>5. LevelFits'
    <3>1. CASE outbox = <<>>
      BY <1>1, <2>2, <3>1 DEF LevelFits
    <3>2. CASE outbox # <<>>
      <4>1. level' = "follow" /\ level = "follow"
        BY <2>2, <3>2
      <4>2. phase' = Ready
        BY <2>2, <4>1 DEF Handshake, LevelFits
      <4>. QED
        BY <4>1, <4>2 DEF LevelFits
    <3>. QED
      BY <3>1, <3>2
  <2>. QED
    BY <1>3, <2>3, <2>4, <2>5 DEF Handshake
<1>. QED
  BY <1>6, <1>7

LEMMA ErrorStep ==
  ASSUME Handshake, ReceiveError \/ ConnectionBreaks
  PROVE  Handshake'
<1>1. /\ wire # Idle /\ wire' = Idle /\ level' = IF outbox = <<>> THEN "idle" ELSE level
      /\ UNCHANGED <<script, read, chan, phase, queue, outbox, posted, got, server>>
      /\ sid' \in {sid, Captured(wire)}
  BY DEF ReceiveError, ConnectionBreaks, HandleError, Idle
<1>2. QueuesTypeOK' /\ PhaseFits'
  BY <1>1 DEF Handshake, QueuesTypeOK, PhaseFits
<1>3. LevelFits'
  BY <1>1 DEF Handshake, LevelFits, Idle
<1>4. SessionFits'
  BY <1>1 DEF Handshake, SessionFits, Captured, Idle
<1>. QED
  BY <1>2, <1>3, <1>4 DEF Handshake

\* No step of the client or the server disturbs the handshake.
LEMMA HandshakeStep ==
  ASSUME Handshake, [HttpNext]_hvars
  PROVE  Handshake'
<1>1. CASE BeginDelete \/ Exit \/ UNCHANGED hvars
  <2>1. UNCHANGED <<script, read, chan, taskVars, server>>
    BY <1>1 DEF BeginDelete, Exit, hvars, taskVars
  <2>. QED
    BY <2>1 DEF taskVars, Handshake, QueuesTypeOK, PhaseFits, LevelFits, SessionFits
<1>. QED
  BY <1>1, ReadLineStep, TakeLineStep, PostStep, ServerStep, ReceiveStep, ErrorStep
  DEF HttpNext

-----------------------------------------------------------------------------
(* The lines                                                               *)

\* Everything that was sent, waits or is still to be read, in the order it is sent.
All == posted \o outbox \o queue \o chan \o Unread

\* Where the entries of a sequence are once one is put between two parts.
LEMMA Inserted ==
  ASSUME NEW S, NEW a \in Seq(S), NEW b \in Seq(S), NEW x \in S
  PROVE  LET s == a \o b
             t == a \o <<x>> \o b
             n == Len(a) + 1
         IN  /\ \A k \in DOMAIN s : k \in Nat /\ (k < n => k \in DOMAIN t /\ t[k] = s[k])
             /\ \A k \in DOMAIN s : k >= n => k + 1 \in DOMAIN t /\ t[k + 1] = s[k]
             /\ \A k \in DOMAIN t : k \in Nat /\ (k < n => k \in DOMAIN s)
             /\ \A k \in DOMAIN t : k > n => k - 1 \in DOMAIN s /\ t[k] = s[k - 1]
             /\ n \in Nat /\ t[n] = x
  OBVIOUS

\* A message that is no line of stdin, put in or taken out, leaves the lines.
LEMMA NoLineBetween ==
  ASSUME script \in Seq(LineTypes),
         NEW a \in Seq(Sendable), NEW b \in Seq(Sendable), NEW x \in Sendable, ~IsLine(x)
  PROVE  AreTheLines(a \o b) <=> AreTheLines(a \o <<x>> \o b)
<1>1. PICK s, t, n : s = a \o b /\ t = a \o <<x>> \o b /\ n = Len(a) + 1
  OBVIOUS
<1>2. /\ \A k \in DOMAIN s : k \in Nat /\ (k < n => k \in DOMAIN t /\ t[k] = s[k])
      /\ \A k \in DOMAIN s : k >= n => k + 1 \in DOMAIN t /\ t[k + 1] = s[k]
      /\ \A k \in DOMAIN t : k \in Nat /\ (k < n => k \in DOMAIN s)
      /\ \A k \in DOMAIN t : k > n => k - 1 \in DOMAIN s /\ t[k] = s[k - 1]
      /\ n \in Nat /\ t[n] = x
  BY <1>1, Inserted, SMTT(30)
<1>3. \A k \in DOMAIN s : \E l \in DOMAIN t : t[l] = s[k]
  BY <1>2
<1>4. \A l \in DOMAIN t : IsLine(t[l]) => \E k \in DOMAIN s : t[l] = s[k]
  BY <1>2
<1>5. ASSUME AreTheLines(s) PROVE AreTheLines(t)
  <2>1. \A j, k \in DOMAIN t :
          j < k /\ IsLine(t[j]) /\ IsLine(t[k]) => t[j].name < t[k].name
    <3>. SUFFICES ASSUME NEW j \in DOMAIN t, NEW k \in DOMAIN t, j < k, IsLine(t[j]), IsLine(t[k])
                  PROVE  t[j].name < t[k].name
      OBVIOUS
    <3>1. j \in Nat /\ k \in Nat /\ j # n /\ k # n
      BY <1>2
    <3>2. PICK i \in DOMAIN s : i = (IF j < n THEN j ELSE j - 1) /\ t[j] = s[i]
      BY <1>2, <3>1
    <3>3. PICK l \in DOMAIN s : l = (IF k < n THEN k ELSE k - 1) /\ t[k] = s[l]
      BY <1>2, <3>1
    <3>4. i < l
      BY <1>2, <3>1, <3>2, <3>3
    <3>. QED
      BY <1>5, <3>2, <3>3, <3>4 DEF AreTheLines
  <2>. QED
    BY <1>3, <1>4, <1>5, <2>1 DEF AreTheLines
<1>6. ASSUME AreTheLines(t) PROVE AreTheLines(s)
  <2>1. \A j, k \in DOMAIN s :
          j < k /\ IsLine(s[j]) /\ IsLine(s[k]) => s[j].name < s[k].name
    <3>. SUFFICES ASSUME NEW j \in DOMAIN s, NEW k \in DOMAIN s, j < k, IsLine(s[j]), IsLine(s[k])
                  PROVE  s[j].name < s[k].name
      OBVIOUS
    <3>1. j \in Nat /\ k \in Nat
      BY <1>2
    <3>2. PICK i \in DOMAIN t : i = (IF j < n THEN j ELSE j + 1) /\ t[i] = s[j]
      BY <1>2, <3>1
    <3>3. PICK l \in DOMAIN t : l = (IF k < n THEN k ELSE k + 1) /\ t[l] = s[k]
      BY <1>2, <3>1
    <3>4. i < l
      BY <1>2, <3>1, <3>2, <3>3
    <3>. QED
      BY <1>6, <3>2, <3>3, <3>4 DEF AreTheLines
  <2>2. \A i \in DOMAIN script : IsMessage(script[i]) => IsLine(Line(i))
    <3>1. \A i \in DOMAIN script : i > 0
      OBVIOUS
    <3>. QED
      BY <3>1 DEF IsLine, Line, Message
  <2>. QED
    BY <1>3, <1>4, <1>6, <2>1, <2>2 DEF AreTheLines
<1>. QED
  BY <1>1, <1>5, <1>6

\* The facts about sequences that the order of the lines rests on.
LEMMA AppendIsConcat ==
  ASSUME NEW S, NEW s \in Seq(S), NEW h \in S
  PROVE  Append(s, h) = s \o <<h>>
  OBVIOUS

LEMMA Concat ==
  ASSUME NEW s \in Seq(Sendable), NEW t \in Seq(Sendable)
  PROVE  /\ s \o t \in Seq(Sendable) /\ s \o <<>> = s /\ <<>> \o s = s
         /\ \A u \in Seq(Sendable) : (s \o t) \o u = s \o (t \o u)
<1>1. s \o t \in Seq(Sendable) /\ s \o <<>> = s /\ <<>> \o s = s
  OBVIOUS
<1>2. ASSUME NEW u \in Seq(Sendable) PROVE (s \o t) \o u = s \o (t \o u)
  OBVIOUS
<1>. QED
  BY <1>1, <1>2

\* The bracketings of four sequences the steps below go between, as a predicate:
\* the provers then find the instance at once.
Rebracketed(s, t, u, v) ==
  /\ (s \o (t \o u)) \o v = (s \o t) \o (u \o v)
  /\ ((s \o t) \o u) \o v = s \o ((t \o u) \o v)

LEMMA Associative ==
  ASSUME NEW s \in Seq(Sendable), NEW t \in Seq(Sendable), NEW u \in Seq(Sendable),
         NEW v \in Seq(Sendable)
  PROVE  Rebracketed(s, t, u, v)
<1>1. (s \o t) \o u = s \o (t \o u) /\ (t \o u) \o v = t \o (u \o v)
  <2>1. (s \o t) \o u = s \o (t \o u)
    OBVIOUS
  <2>2. (t \o u) \o v = t \o (u \o v)
    OBVIOUS
  <2>. QED
    BY <2>1, <2>2
<1>2. PICK st \in Seq(Sendable) : st = s \o t
  BY Concat
<1>3. (st \o u) \o v = st \o (u \o v)
  OBVIOUS
<1>4. PICK tu \in Seq(Sendable) : tu = t \o u
  BY Concat
<1>5. (s \o tu) \o v = s \o (tu \o v)
  OBVIOUS
<1>. QED
  BY <1>1, <1>2, <1>3, <1>4, <1>5, Zenon DEF Rebracketed

\* What moves from the head of a sequence to the end of the one before it.
LEMMA Across ==
  ASSUME NEW x \in Seq(Sendable), NEW s \in Seq(Sendable), NEW t \in Seq(Sendable), t # <<>>
  PROVE  (x \o Append(s, Head(t))) \o Tail(t) = (x \o s) \o t
<1>0. Head(t) \in Sendable /\ Tail(t) \in Seq(Sendable)
  OBVIOUS
<1>1. PICK h \in Sendable, r \in Seq(Sendable) : h = Head(t) /\ r = Tail(t)
  BY <1>0
<1>2. t = <<h>> \o r
  BY <1>1
<1>3. Append(s, h) = s \o <<h>>
  BY AppendIsConcat
<1>4. (x \o (s \o <<h>>)) \o r = (x \o s) \o (<<h>> \o r)
  OBVIOUS
<1>. QED
  BY <1>1, <1>2, <1>3, <1>4

\* The types of the five parts, and what is left to read.
LEMMA AllIs ==
  ASSUME QueuesTypeOK
  PROVE  /\ posted \in Seq(Sendable) /\ outbox \in Seq(Sendable) /\ queue \in Seq(Sendable)
         /\ chan \in Seq(Sendable) /\ Unread \in Seq(Sendable)
         /\ script \in Seq(LineTypes)
         /\ Len(Unread) = Len(script) - read /\ read \in 0..Len(script) /\ Len(script) \in Nat
         /\ \A k \in 1..Len(Unread) : Unread[k] = Line(read + k)
<1>1. script \in Seq(LineTypes) /\ Len(script) \in Nat /\ read \in 0..Len(script)
  BY ScriptsAreLines DEF QueuesTypeOK
<1>2. PICK n \in Nat : n = Len(script) - read
  BY <1>1
<1>3. \A k \in 1..n : read + k \in 1..Len(script)
  BY <1>1, <1>2
<1>4. \A k \in 1..n : Line(read + k) \in Sendable
  BY <1>3, LinesAreTyped, Kinds
<1>5. Unread = [k \in 1..n |-> Line(read + k)]
  BY <1>2 DEF Unread
<1>6. Unread \in Seq(Sendable) /\ Len(Unread) = n /\ \A k \in 1..n : Unread[k] = Line(read + k)
  BY <1>4, <1>5
<1>7. Seq(LineMessage) \subseteq Seq(Sendable)
  BY Kinds
<1>. QED
  BY <1>1, <1>2, <1>6, <1>7 DEF QueuesTypeOK

\* Nothing about the lines changes while what there is of them stays.
LEMMA SameLines ==
  ASSUME LinesInOrder, UNCHANGED script, All' = All
  PROVE  LinesInOrder'
  BY DEF LinesInOrder, All, AreTheLines, Line

\* Nor does it change with a message that is no line.
LEMMA OneMore ==
  ASSUME QueuesTypeOK, LinesInOrder, UNCHANGED script,
         NEW a \in Seq(Sendable), NEW b \in Seq(Sendable), NEW x \in Sendable, ~IsLine(x),
         \/ All = a \o b /\ All' = a \o <<x>> \o b
         \/ All = a \o <<x>> \o b /\ All' = a \o b
  PROVE  LinesInOrder'
<1>1. script \in Seq(LineTypes)
  BY AllIs
<1>2. AreTheLines(a \o b) /\ AreTheLines(a \o <<x>> \o b)
  BY <1>1, NoLineBetween DEF LinesInOrder, All
<1>3. PICK t : t = All' /\ AreTheLines(t)
  BY <1>2
<1>. QED
  BY <1>3 DEF LinesInOrder, All, AreTheLines, Line

\* The order of the lines, kept by each action.
LEMMA ReadLineLines ==
  ASSUME QueuesTypeOK, LinesInOrder, ReadLine
  PROVE  LinesInOrder'
<1>1. /\ read' = read + 1 /\ read < Len(script) /\ chan' = Append(chan, Line(read + 1))
      /\ UNCHANGED <<script, queue, outbox, posted>>
  BY DEF ReadLine, taskVars
<1>2. PICK n \in Nat : n = Len(script) - read /\ n > 0
  BY <1>1, AllIs
<1>3. PICK u \in Seq(Sendable) : u = Unread /\ Len(u) = n /\ \A k \in 1..n : u[k] = Line(read + k)
  BY <1>2, AllIs
<1>4. PICK v : v = Unread'
  OBVIOUS
<1>5. v = [k \in 1..(n - 1) |-> Line((read + 1) + k)]
  <2>1. Len(script) - (read + 1) = n - 1 /\ Len(script') - read' = n - 1
    BY <1>1, <1>2, AllIs
  <2>2. \A k : Line(k)' = Line(k)
    BY <1>1 DEF Line
  <2>3. v = [k \in 1..(Len(script') - read') |-> Message(script'[read' + k], read' + k)]
    BY <1>4 DEF Unread, Line
  <2>. QED
    BY <1>1, <2>1, <2>3 DEF Line
<1>6. \A k \in 1..(n - 1) : u[k + 1] = Line((read + 1) + k)
  <2>1. \A k \in 1..(n - 1) : k + 1 \in 1..n /\ read + (k + 1) = (read + 1) + k
    BY <1>2, AllIs
  <2>. QED
    BY <1>3, <2>1
<1>7. u # <<>> /\ Head(u) = Line(read + 1) /\ Tail(u) = v
  <2>1. u # <<>> /\ Head(u) = u[1] /\ 1 \in 1..n
    BY <1>2, <1>3
  <2>2. u[1] = Line(read + 1)
    BY <1>3, <2>1
  <2>3. PICK w \in Seq(Sendable) : w = Tail(u)
    <3>1. Tail(u) \in Seq(Sendable)
      BY <2>1
    <3>. QED
      BY <3>1
  <2>4. Len(w) = n - 1 /\ \A k \in 1..(n - 1) : w[k] = u[k + 1]
    BY <1>2, <1>3, <2>1, <2>3
  <2>5. w = [k \in 1..(n - 1) |-> w[k]]
    BY <2>4
  <2>6. w = v
    BY <1>5, <1>6, <2>4, <2>5
  <2>. QED
    BY <2>1, <2>2, <2>3, <2>6
<1>8. PICK x \in Seq(Sendable) : x = posted \o outbox \o queue
  BY AllIs, Concat
<1>9. PICK c \in Seq(Sendable) : c = chan
  BY AllIs
<1>10. (x \o Append(c, Head(u))) \o Tail(u) = (x \o c) \o u
  BY <1>7, Across
<1>11. All = (x \o c) \o u
  BY <1>3, <1>8, <1>9 DEF All
<1>12. All' = (x \o Append(c, Head(u))) \o Tail(u)
  BY <1>1, <1>4, <1>7, <1>8, <1>9 DEF All
<1>. QED
  BY <1>1, <1>10, <1>11, <1>12, SameLines

LEMMA PostLines ==
  ASSUME QueuesTypeOK, LinesInOrder, Post
  PROVE  LinesInOrder'
<1>1. /\ outbox # <<>> /\ posted' = Append(posted, Head(outbox)) /\ outbox' = Tail(outbox)
      /\ UNCHANGED <<script, read, queue, chan>>
  BY DEF Post
<1>2. posted' \o outbox' = posted \o outbox
  <2>1. posted \in Seq(Sendable) /\ outbox \in Seq(Sendable)
    BY AllIs
  <2>. QED
    BY <1>1, <2>1, HeadMoves
<1>3. Unread' = Unread
  BY <1>1 DEF Unread, Line
<1>. QED
  BY <1>1, <1>2, <1>3, SameLines DEF All

LEMMA TakeLineLines ==
  ASSUME Handshake, LinesInOrder, TakeLine
  PROVE  LinesInOrder'
<1>0. QueuesTypeOK /\ PhaseFits
  BY DEF Handshake
<1>1. /\ level = "idle" /\ chan # <<>> /\ chan' = Tail(chan) /\ outbox = <<>>
      /\ UNCHANGED <<script, read, posted>>
  BY DEF TakeLine, Handshake, LevelFits
<1>2. PICK m : m = Head(chan)
  OBVIOUS
<1>3. m \in LineMessage /\ m \in Sendable
  BY <1>0, <1>1, <1>2, Kinds DEF QueuesTypeOK
<1>4. PICK p \in Seq(Sendable), q \in Seq(Sendable), c \in Seq(Sendable), u \in Seq(Sendable) :
        p = posted /\ q = queue /\ c = Tail(chan) /\ u = Unread
  <2>1. /\ posted \in Seq(Sendable) /\ queue \in Seq(Sendable) /\ chan \in Seq(Sendable)
        /\ Unread \in Seq(Sendable)
    BY <1>0, AllIs
  <2>2. Tail(chan) \in Seq(Sendable)
    BY <1>1, <2>1
  <2>. QED
    BY <2>1, <2>2
<1>5. chan = <<m>> \o c /\ Unread' = u /\ chan' = c
  <2>1. chan = <<m>> \o c
    BY <1>0, <1>1, <1>2, <1>4, AllIs
  <2>. QED
    BY <1>1, <1>4, <2>1 DEF Unread, Line
<1>6. PICK b \in Seq(Sendable) : b = c \o u
  BY Concat
<1>7. All = (p \o q) \o <<m>> \o b
  <2>1. All = p \o <<>> \o q \o (<<m>> \o c) \o u
    BY <1>1, <1>4, <1>5 DEF All
  <2>2. p \o <<>> \o q \o (<<m>> \o c) \o u = (p \o q) \o <<m>> \o (c \o u)
    <3>0. <<m>> \in Seq(Sendable)
      BY <1>3
    <3>1. PICK a \in Seq(Sendable), x \in Seq(Sendable) : a = p \o q /\ x = <<m>>
      BY <3>0, Concat
    <3>2. p \o <<>> = p
      BY Concat
    <3>3. (a \o (x \o c)) \o u = (a \o x) \o (c \o u)
      <4>1. Rebracketed(a, x, c, u)
        BY <1>4, <3>1, Associative, Zenon
      <4>. QED
        BY <4>1, Zenon DEF Rebracketed
    <3>. QED
      BY <3>1, <3>2, <3>3
  <2>. QED
    BY <1>6, <2>1, <2>2
<1>8. All' = p \o outbox' \o queue' \o c \o u
  BY <1>1, <1>4, <1>5 DEF All
<1>9. PICK a \in Seq(Sendable) : a = p \o q
  BY Concat
<1>10. CASE ~IsMessage(m.type)
  <2>1. outbox' = <<>> /\ queue' = q
    BY <1>1, <1>2, <1>4, <1>10 DEF TakeLine
  <2>2. p \o <<>> \o q \o c \o u = (p \o q) \o (c \o u)
    BY SMTT(30)
  <2>3. All' = a \o b /\ All = a \o <<m>> \o b
    BY <1>6, <1>7, <1>8, <1>9, <2>1, <2>2
  <2>4. ~IsLine(m)
    BY <1>10 DEF IsLine
  <2>. QED
    BY <1>0, <1>1, <1>3, <2>3, <2>4, OneMore
<1>11. CASE IsMessage(m.type)
  <2>1. PICK r : r = HandleStdin(phase, queue, m)
    OBVIOUS
  <2>2. queue' = r.queue /\ outbox' = r.post
    BY <1>2, <1>11, <2>1 DEF TakeLine
  <2>3. CASE phase = Pending
    <3>1. p = <<>> /\ q = <<>>
      BY <1>0, <1>4, <2>3 DEF PhaseFits, Pending, Ready, Waiting
    <3>2. CASE m.type = "initialize"
      <4>1. queue' = q /\ outbox' = <<m>>
        BY <1>4, <2>1, <2>2, <2>3, <3>2 DEF HandleStdin, Pending
      <4>2. <<>> \o <<m>> \o <<>> \o c \o u = (<<>> \o <<>>) \o <<m>> \o (c \o u)
        BY <1>3
      <4>. QED
        BY <1>1, <1>6, <1>7, <1>8, <3>1, <4>1, <4>2, SameLines
    <3>3. CASE m.type # "initialize"
      <4>1. queue' = Append(q, m) /\ outbox' = <<SyntheticInit>>
        BY <1>4, <2>1, <2>2, <2>3, <3>3 DEF HandleStdin, Pending, Queued
      <4>2. Append(q, m) = <<m>>
        BY <1>3, <3>1
      <4>3. PICK x \in Sendable : x = SyntheticInit
        BY Kinds
      <4>4. PICK d \in Seq(Sendable) : d = <<m>> \o b
        <5>1. <<m>> \in Seq(Sendable)
          BY <1>3
        <5>. QED
          BY <5>1, Concat
      <4>5. <<>> \o <<x>> \o <<m>> \o c \o u = <<>> \o <<x>> \o (<<m>> \o (c \o u))
        BY <1>3, SMTT(30)
      <4>6. All' = <<>> \o <<x>> \o d
        BY <1>6, <1>8, <3>1, <4>1, <4>2, <4>3, <4>4, <4>5
      <4>7. (<<>> \o <<>>) \o <<m>> \o b = <<>> \o (<<m>> \o b)
        BY <1>3
      <4>8. All = <<>> \o d
        BY <1>7, <3>1, <4>4, <4>7
      <4>9. ~IsLine(x) /\ <<>> \in Seq(Sendable)
        BY <4>3 DEF IsLine, SyntheticInit, Message
      <4>. QED
        BY <1>0, <1>1, <4>6, <4>8, <4>9, OneMore
    <3>. QED
      BY <3>2, <3>3
  <2>4. CASE phase.kind = "waiting"
    <3>1. queue' = Append(q, m) /\ outbox' = <<>>
      BY <1>4, <2>1, <2>2, <2>4 DEF HandleStdin, Queued
    <3>2. Append(q, m) = q \o <<m>>
      BY <1>3, AppendIsConcat
    <3>3. p \o <<>> \o (q \o <<m>>) \o c \o u = (p \o q) \o <<m>> \o (c \o u)
      BY <1>3, SMTT(30)
    <3>. QED
      BY <1>1, <1>6, <1>7, <1>8, <3>1, <3>2, <3>3, SameLines
  <2>5. CASE phase = Ready
    <3>1. queue' = q /\ outbox' = <<m>> /\ q = <<>>
      <4>1. q = <<>>
        BY <1>0, <1>4, <2>5 DEF PhaseFits, Pending, Ready, Waiting
      <4>. QED
        BY <1>4, <2>1, <2>2, <2>5, <4>1 DEF HandleStdin, Ready
    <3>2. p \o <<m>> \o <<>> \o c \o u = (p \o <<>>) \o <<m>> \o (c \o u)
      BY <1>3, SMTT(30)
    <3>. QED
      BY <1>1, <1>6, <1>7, <1>8, <3>1, <3>2, SameLines
  <2>. QED
    BY <1>0, <2>3, <2>4, <2>5 DEF PhaseFits
<1>. QED
  BY <1>10, <1>11

LEMMA ReceiveLines ==
  ASSUME Handshake, LinesInOrder, Receive
  PROVE  LinesInOrder'
<1>0. QueuesTypeOK /\ PhaseFits
  BY DEF Handshake
<1>1. /\ wire # Idle /\ UNCHANGED <<script, read, chan, posted>>
  BY DEF Receive, Idle
<1>2. PICK msgs, r : /\ r = HandleResponse(phase, queue, msgs)
                     /\ queue' = r.queue /\ outbox' = Left(r)
  BY DEF Receive
<1>3. level \in {"first", "follow"} /\ (level = "first" => outbox = <<>>)
  BY <1>1 DEF Handshake, LevelFits
<1>4. Unread' = Unread
  BY <1>1 DEF Unread, Line
<1>5. CASE phase.kind = "waiting" /\ \E m \in ToSet(msgs) : IsInitAnswer(m, phase.init)
  <2>1. level = "first" /\ outbox = <<>>
    BY <1>3, <1>5 DEF Handshake, LevelFits, Ready
  <2>2. PICK i : i = phase.init
    OBVIOUS
  <2>3. r.queue = <<>> /\ r.post = FollowUps(i, queue)
    BY <1>2, <1>5, <2>2 DEF HandleResponse, Kept
  <2>4. queue' = <<>> /\ outbox' = IF i = SyntheticInit THEN <<Initialized>> \o queue ELSE queue
    BY <1>2, <2>1, <2>3 DEF Left, FollowUps
  <2>5. PICK p \in Seq(Sendable), q \in Seq(Sendable), c \in Seq(Sendable), u \in Seq(Sendable) :
          p = posted /\ q = queue /\ c = chan /\ u = Unread
    BY <1>0, AllIs
  <2>6. All = p \o <<>> \o q \o c \o u
    BY <2>1, <2>5 DEF All
  <2>7. All' = p \o outbox' \o <<>> \o c \o u
    BY <1>1, <1>4, <2>4, <2>5 DEF All
  <2>8. PICK b \in Seq(Sendable) : b = q \o c \o u
    BY Concat
  <2>9. CASE i # SyntheticInit
    <3>1. p \o q \o <<>> \o c \o u = p \o <<>> \o q \o c \o u
      OBVIOUS
    <3>. QED
      BY <1>1, <2>4, <2>5, <2>6, <2>7, <2>9, <3>1, SameLines
  <2>10. CASE i = SyntheticInit
    <3>1. PICK x \in Sendable : x = Initialized
      BY Kinds
    <3>2. p \o (<<x>> \o q) \o <<>> \o c \o u = p \o <<x>> \o (q \o c \o u)
      <4>1. PICK y \in Seq(Sendable) : y = <<x>>
        <5>1. <<x>> \in Seq(Sendable)
          OBVIOUS
        <5>. QED
          BY <5>1
      <4>2. PICK z \in Seq(Sendable) : z = p \o (y \o q)
        BY Concat
      <4>3. z \o <<>> = z
        BY Concat
      <4>4. z = p \o y \o q
        BY <4>2
      <4>5. p \o y \o q \o c \o u = p \o y \o (q \o c \o u)
        <5>1. PICK w \in Seq(Sendable) : w = p \o y
          BY Concat
        <5>2. ((w \o q) \o c) \o u = w \o ((q \o c) \o u)
          <6>1. Rebracketed(w, q, c, u)
            BY <2>5, <5>1, Associative, Zenon
          <6>. QED
            BY <6>1, Zenon DEF Rebracketed
        <5>. QED
          BY <5>1, <5>2
      <4>. QED
        BY <4>1, <4>2, <4>3, <4>4, <4>5
    <3>3. p \o <<>> \o q \o c \o u = p \o (q \o c \o u)
      OBVIOUS
    <3>4. All = p \o b /\ All' = p \o <<x>> \o b
      BY <2>4, <2>5, <2>6, <2>7, <2>8, <2>10, <3>1, <3>2, <3>3
    <3>5. ~IsLine(x)
      BY <3>1 DEF IsLine, Initialized, Message
    <3>. QED
      BY <1>0, <1>1, <3>4, <3>5, OneMore
  <2>. QED
    BY <2>9, <2>10
<1>6. CASE ~(phase.kind = "waiting" /\ \E m \in ToSet(msgs) : IsInitAnswer(m, phase.init))
  <2>1. r.queue = queue /\ r.post = <<>>
    BY <1>2, <1>6 DEF HandleResponse
  <2>2. CASE level = "first"
    BY <1>1, <1>2, <1>3, <1>4, <2>1, <2>2, SameLines DEF Left, All
  <2>3. CASE level = "follow"
    <3>1. Left(r) = outbox
      BY <2>3 DEF Left
    <3>. QED
      BY <1>1, <1>2, <1>4, <2>1, <3>1, SameLines DEF All
  <2>. QED
    BY <1>3, <2>2, <2>3
<1>. QED
  BY <1>5, <1>6

LEMMA LinesStep ==
  ASSUME Handshake, LinesInOrder, [HttpNext]_hvars
  PROVE  LinesInOrder'
<1>1. CASE UNCHANGED <<script, read, chan, queue, outbox, posted>>
  BY <1>1, SameLines DEF All, Unread, Line
<1>2. ServerReplies \/ ReceiveError \/ ConnectionBreaks \/ ServerDeletes \/ BeginDelete \/ Exit
        \/ UNCHANGED hvars => UNCHANGED <<script, read, chan, queue, outbox, posted>>
  BY DEF ServerReplies, ReceiveError, ConnectionBreaks, HandleError, ServerDeletes, BeginDelete,
         Exit, hvars, taskVars
<1>. QED
  BY <1>1, <1>2, ReadLineLines, TakeLineLines, PostLines, ReceiveLines DEF HttpNext, Handshake

LEMMA LinesInit == HttpInit => LinesInOrder
<1>. SUFFICES ASSUME HttpInit PROVE LinesInOrder
  OBVIOUS
<1>1. Handshake
  BY HandshakeInit
<1>2. /\ posted = <<>> /\ outbox = <<>> /\ queue = <<>> /\ chan = <<>> /\ read = 0
  BY DEF HttpInit
<1>3. PICK u \in Seq(Sendable) : u = Unread
  BY <1>1, AllIs DEF Handshake
<1>4. All = u
  <2>1. <<>> \o <<>> \o <<>> \o <<>> \o u = u
    OBVIOUS
  <2>. QED
    BY <1>2, <1>3, <2>1 DEF All
<1>5. /\ script \in Seq(LineTypes) /\ Len(u) = Len(script) /\ Len(script) \in Nat
      /\ \A k \in 1..Len(script) : u[k] = Line(k)
  BY <1>1, <1>2, <1>3, AllIs DEF Handshake
<1>6. DOMAIN u = DOMAIN script /\ DOMAIN u = 1..Len(script)
  BY <1>3, <1>5
<1>7. \A k \in DOMAIN u : u[k] = Line(k) /\ Line(k).name = k
  BY <1>5, <1>6 DEF Line, Message
<1>8. AreTheLines(u)
  BY <1>6, <1>7 DEF AreTheLines
<1>. QED
  BY <1>4, <1>8 DEF LinesInOrder, All

-----------------------------------------------------------------------------
(* What the parser makes of a server's stream                              *)

\* FlattenSeq's function is the only one of its kind: two that differ would
\* differ somewhere first.
Joins(f, ss, n) == f = [i \in 1..n |-> IF i = 1 THEN ss[i] ELSE f[i - 1] \o ss[i]]

LEMMA JoinIsOne ==
  ASSUME NEW f, NEW g, NEW ss, NEW n \in Nat, Joins(f, ss, n), Joins(g, ss, n)
  PROVE  \A i \in 1..n : f[i] = g[i]
<1>1. DEFINE U == {i \in 1..n : f[i] # g[i]}
<1>2. SUFFICES ASSUME U # {} PROVE FALSE
  OBVIOUS
<1>3. U \subseteq Nat
  OBVIOUS
<1>4. PICK x \in U : \A y \in U : <<y, x>> \notin OpToRel(<, Nat)
  BY <1>2, <1>3, NatLessThanWellFounded, WFMin
<1>5. x \in 1..n /\ f[x] # g[x]
  OBVIOUS
<1>6. f[x] = (IF x = 1 THEN ss[x] ELSE f[x - 1] \o ss[x]) /\ g[x] = (IF x = 1 THEN ss[x] ELSE g[x - 1] \o ss[x])
  BY <1>5, Zenon DEF Joins
<1>7. CASE x = 1
  BY <1>5, <1>6, <1>7
<1>8. CASE x # 1
  <2>1. x - 1 \in 1..n /\ x - 1 \in Nat /\ x \in Nat /\ x - 1 < x
    BY <1>5, <1>8
  <2>2. x - 1 \notin U
    BY <1>4, <2>1 DEF OpToRel
  <2>3. f[x - 1] = g[x - 1]
    BY <2>1, <2>2
  <2>. QED
    BY <1>5, <1>6, <1>8, <2>3
<1>. QED
  BY <1>7, <1>8

LEMMA FlattenIs ==
  ASSUME NEW n \in Nat \ {0}, NEW ss, Len(ss) = n, NEW g, Joins(g, ss, n)
  PROVE  FlattenSeq(ss) = g[n]
<1>1. DEFINE f == CHOOSE x : Joins(x, ss, Len(ss))
<1>2. Joins(f, ss, Len(ss))
  BY Zenon
<1>3. FlattenSeq(ss) = f[Len(ss)]
  <2>1. Len(ss) # 0
    OBVIOUS
  <2>. QED
    BY <2>1, Zenon DEF FlattenSeq, Joins
<1>. HIDE DEF f
<1>4. f[n] = g[n]
  <2>1. n \in 1..n /\ n \in Nat
    OBVIOUS
  <2>. QED
    BY <1>2, <2>1, JoinIsOne
<1>. QED
  BY <1>3, <1>4

\* Sequences of which all but two, one or none are empty.
LEMMA FlattenNone ==
  ASSUME NEW n \in Nat \ {0}, NEW ss, Len(ss) = n, \A i \in 1..n : ss[i] = <<>>
  PROVE  FlattenSeq(ss) = <<>>
<1>1. PICK g : g = [i \in 1..n |-> <<>>]
  OBVIOUS
<1>2. \A i \in 1..n : g[i] = IF i = 1 THEN ss[i] ELSE g[i - 1] \o ss[i]
  <2>. SUFFICES ASSUME NEW i \in 1..n PROVE g[i] = IF i = 1 THEN ss[i] ELSE g[i - 1] \o ss[i]
    OBVIOUS
  <2>1. i # 1 => i - 1 \in 1..n
    OBVIOUS
  <2>2. <<>> \o <<>> = <<>>
    OBVIOUS
  <2>. QED
    BY <1>1, <2>1, <2>2
<1>3. Joins(g, ss, n)
  BY <1>1, <1>2, Zenon DEF Joins
<1>4. g[n] = <<>>
  BY <1>1
<1>. QED
  BY <1>3, <1>4, FlattenIs

LEMMA FlattenTwo ==
  ASSUME NEW n \in Nat \ {0}, NEW ss, Len(ss) = n,
         NEW k \in 1..n, NEW l \in 1..n, k < l, NEW v, NEW w, ss[k] = <<v>>, ss[l] = <<w>>,
         \A i \in 1..n : i # k /\ i # l => ss[i] = <<>>
  PROVE  FlattenSeq(ss) = <<v, w>>
<1>1. PICK g : g = [i \in 1..n |-> IF i < k THEN <<>> ELSE IF i < l THEN <<v>> ELSE <<v, w>>]
  OBVIOUS
<1>2. /\ <<>> \o <<>> = <<>> /\ <<>> \o <<v>> = <<v>> /\ <<v>> \o <<>> = <<v>>
      /\ <<v>> \o <<w>> = <<v, w>> /\ <<v, w>> \o <<>> = <<v, w>>
  <2>1. <<>> \o <<>> = <<>> /\ <<>> \o <<v>> = <<v>> /\ <<v>> \o <<>> = <<v>>
    OBVIOUS
  <2>2. <<v>> \o <<w>> = <<v, w>>
    <3>1. PICK p : p = <<v>> \o <<w>>
      OBVIOUS
    <3>2. <<v>> \in Seq({v, w}) /\ <<w>> \in Seq({v, w})
      OBVIOUS
    <3>3. p \in Seq({v, w}) /\ Len(p) = 2 /\ p[1] = v /\ p[2] = w
      BY <3>1, <3>2
    <3>4. p = <<v, w>>
      BY <3>3
    <3>. QED
      BY <3>1, <3>4
  <2>3. <<v, w>> \o <<>> = <<v, w>>
    OBVIOUS
  <2>. QED
    BY <2>1, <2>2, <2>3
<1>3. ASSUME NEW i \in 1..n PROVE g[i] = IF i = 1 THEN ss[i] ELSE g[i - 1] \o ss[i]
  <2>1. CASE i = 1
    <3>1. g[i] = IF i < k THEN <<>> ELSE IF i < l THEN <<v>> ELSE <<v, w>>
      BY <1>1
    <3>2. i < l /\ (i < k \/ i = k)
      BY <2>1
    <3>3. CASE i < k
      BY <2>1, <3>1, <3>3
    <3>4. CASE i = k
      BY <2>1, <3>1, <3>2, <3>4
    <3>. QED
      BY <3>2, <3>3, <3>4
  <2>2. CASE i # 1
    <3>1. i - 1 \in 1..n
      BY <2>2
    <3>2. g[i - 1] = IF i - 1 < k THEN <<>> ELSE IF i - 1 < l THEN <<v>> ELSE <<v, w>>
      BY <1>1, <3>1
    <3>3. g[i] = IF i < k THEN <<>> ELSE IF i < l THEN <<v>> ELSE <<v, w>>
      BY <1>1
    <3>4. CASE i = k
      BY <1>2, <2>2, <3>2, <3>3, <3>4
    <3>5. CASE i = l
      <4>1. i - 1 < l /\ ~(i - 1 < k) /\ ~(i < k) /\ ~(i < l)
        BY <3>5
      <4>. QED
        BY <1>2, <2>2, <3>2, <3>3, <3>5, <4>1
    <3>6. CASE i # k /\ i # l
      <4>1. ss[i] = <<>> /\ (i - 1 < k <=> i < k) /\ (i - 1 < l <=> i < l)
        BY <3>6
      <4>. QED
        BY <1>2, <2>2, <3>2, <3>3, <4>1
    <3>. QED
      BY <3>4, <3>5, <3>6
  <2>. QED
    BY <2>1, <2>2
<1>4. Joins(g, ss, n)
  BY <1>1, <1>3, Zenon DEF Joins
<1>5. g[n] = <<v, w>>
  BY <1>1
<1>. QED
  BY <1>4, <1>5, FlattenIs

LEMMA FlattenOne ==
  ASSUME NEW n \in Nat \ {0}, NEW ss, Len(ss) = n, NEW k \in 1..n, NEW v, ss[k] = <<v>>,
         \A i \in 1..n : i # k => ss[i] = <<>>
  PROVE  FlattenSeq(ss) = <<v>>
<1>1. PICK g : g = [i \in 1..n |-> IF i < k THEN <<>> ELSE <<v>>]
  OBVIOUS
<1>2. /\ <<>> \o <<>> = <<>> /\ <<>> \o <<v>> = <<v>> /\ <<v>> \o <<>> = <<v>>
  OBVIOUS
<1>3. ASSUME NEW i \in 1..n PROVE g[i] = IF i = 1 THEN ss[i] ELSE g[i - 1] \o ss[i]
  <2>1. CASE i = 1
    BY <1>1, <2>1
  <2>2. CASE i # 1
    <3>1. i - 1 \in 1..n
      BY <2>2
    <3>2. g[i - 1] = IF i - 1 < k THEN <<>> ELSE <<v>>
      BY <1>1, <3>1
    <3>3. g[i] = IF i < k THEN <<>> ELSE <<v>>
      BY <1>1
    <3>4. CASE i = k
      BY <1>2, <2>2, <3>2, <3>3, <3>4
    <3>5. CASE i # k
      <4>1. ss[i] = <<>> /\ (i - 1 < k <=> i < k)
        BY <3>5
      <4>. QED
        BY <1>2, <2>2, <3>2, <3>3, <4>1
    <3>. QED
      BY <3>4, <3>5
  <2>. QED
    BY <2>1, <2>2
<1>4. Joins(g, ss, n)
  BY <1>1, <1>3, Zenon DEF Joins
<1>5. g[n] = <<v>>
  BY <1>1
<1>. QED
  BY <1>4, <1>5, FlattenIs

\* The block before a blank line begins behind the blank line before.
LEMMA BlockIs ==
  ASSUME NEW t, NEW i \in Nat, NEW b \in 0..(i - 1), b > 0 => BlankLine(t, b),
         \A j \in (b + 1)..(i - 1) : ~BlankLine(t, j)
  PROVE  BlockBefore(t, i) = SubSeq(t, b + 1, i - 1)
<1>1. DEFINE P(c) == /\ c > 0 => BlankLine(t, c)
                     /\ \A j \in (c + 1)..(i - 1) : ~BlankLine(t, j)
<1>2. P(b)
  OBVIOUS
<1>3. ASSUME NEW c \in 0..(i - 1), P(c) PROVE c = b
  <2>1. CASE c < b
    BY <1>3, <2>1
  <2>2. CASE b < c
    BY <1>3, <2>2
  <2>. QED
    BY <2>1, <2>2
<1>4. (CHOOSE c \in 0..(i - 1) : P(c)) = b
  BY <1>2, <1>3
<1>. QED
  BY <1>4 DEF BlockBefore

\* What a server writes for one event, behind place k of the text.
Named(type) == type # ""
Written(t, k, type, data) ==
  /\ Named(type)
  /\ t[k + 1] = EventLine(type) /\ t[k + 2] = Newline
  /\ t[k + 3] = DataLine(data) /\ t[k + 4] = Newline

LEMMA Fields ==
  \A x : /\ EventLine(x).field = "event" /\ EventLine(x).value = x /\ EventLine(x) # Newline
         /\ DataLine(x).field = "data" /\ DataLine(x).value = x /\ DataLine(x) # Newline
         /\ Newline.field = "newline"
  BY DEF EventLine, DataLine, Newline

\* The events of such a block.
LEMMA EventIs ==
  ASSUME NEW S, NEW t \in Seq(S), Len(t) = 4, NEW type, NEW data, Written(t, 0, type, data)
  PROVE  EventOf(t) = <<[type |-> type, data |-> <<data>>]>>
<1>1. /\ t[1] = EventLine(type) /\ t[2] = Newline /\ t[3] = DataLine(data) /\ t[4] = Newline
      /\ DOMAIN t = 1..4
  BY DEF Written
<1>2. \A i \in 1..4 : i = 1 \/ i = 2 \/ i = 3 \/ i = 4
  OBVIOUS
<1>3. /\ StartsLine(t, 1) /\ StartsLine(t, 3)
      /\ t[1].field = "event" /\ t[1].value = type /\ t[3].field = "data" /\ t[3].value = data
      /\ t[2].field = "newline" /\ t[4].field = "newline"
  BY <1>1, Fields DEF StartsLine
<1>4. Values(t, "event") = <<type>>
  <2>1. PICK ss : ss = [i \in DOMAIN t |->
          IF t[i].field = "event" /\ StartsLine(t, i) THEN <<t[i].value>> ELSE <<>>]
    OBVIOUS
  <2>2. Len(ss) = 4 /\ ss[1] = <<type>> /\ \A i \in 1..4 : i # 1 => ss[i] = <<>>
    BY <1>1, <1>2, <1>3, <2>1
  <2>3. 1 \in 1..4 /\ 4 \in Nat \ {0}
    OBVIOUS
  <2>4. FlattenSeq(ss) = <<type>>
    BY <2>2, <2>3, FlattenOne
  <2>. QED
    BY <2>1, <2>4 DEF Values
<1>5. Values(t, "data") = <<data>>
  <2>1. PICK ss : ss = [i \in DOMAIN t |->
          IF t[i].field = "data" /\ StartsLine(t, i) THEN <<t[i].value>> ELSE <<>>]
    OBVIOUS
  <2>2. Len(ss) = 4 /\ ss[3] = <<data>> /\ \A i \in 1..4 : i # 3 => ss[i] = <<>>
    BY <1>1, <1>2, <1>3, <2>1
  <2>3. 3 \in 1..4 /\ 4 \in Nat \ {0}
    OBVIOUS
  <2>4. FlattenSeq(ss) = <<data>>
    BY <2>2, <2>3, FlattenOne
  <2>. QED
    BY <2>1, <2>4 DEF Values
<1>6. <<type>> # <<>> /\ <<data>> # <<>> /\ Last(<<type>>) = type
  BY DEF Last
<1>7. TypeIn(t) = type /\ type # ""
  BY <1>4, <1>6 DEF TypeIn, Written, Named
<1>. QED
  BY <1>5, <1>6, <1>7 DEF EventOf

\* One event of a text: where its blank line is, if it is there, and what it is.
LEMMA EventAt ==
  ASSUME NEW S, NEW t \in Seq(S), NEW k \in Nat, k + 4 <= Len(t), NEW type, NEW data,
         Written(t, k, type, data), k > 0 => BlankLine(t, k)
  PROVE  /\ \A i \in (k + 1)..(k + 4) : ~BlankLine(t, i)
         /\ k + 5 <= Len(t) /\ t[k + 5] = Newline =>
              /\ BlankLine(t, k + 5)
              /\ EventOf(BlockBefore(t, k + 5)) = <<[type |-> type, data |-> <<data>>]>>
<1>1. /\ t[k + 1] = EventLine(type) /\ t[k + 2] = Newline
      /\ t[k + 3] = DataLine(data) /\ t[k + 4] = Newline
  BY DEF Written
<1>2. ~BlankLine(t, k + 1) /\ ~BlankLine(t, k + 3)
  BY <1>1, Fields DEF BlankLine
<1>3. ~BlankLine(t, k + 2) /\ ~BlankLine(t, k + 4)
  <2>1. k + 2 # 1 /\ k + 4 # 1 /\ (k + 2) - 1 = k + 1 /\ (k + 4) - 1 = k + 3
    OBVIOUS
  <2>. QED
    BY <1>1, <2>1, Fields DEF BlankLine, StartsLine
<1>4. \A i \in (k + 1)..(k + 4) : ~BlankLine(t, i)
  <2>1. \A i \in (k + 1)..(k + 4) : i = k + 1 \/ i = k + 2 \/ i = k + 3 \/ i = k + 4
    OBVIOUS
  <2>. QED
    BY <1>2, <1>3, <2>1
<1>5. ASSUME k + 5 <= Len(t), t[k + 5] = Newline
      PROVE  /\ BlankLine(t, k + 5)
             /\ EventOf(BlockBefore(t, k + 5)) = <<[type |-> type, data |-> <<data>>]>>
  <2>1. (k + 5) - 1 = k + 4 /\ k + 5 \in Nat /\ k \in 0..((k + 5) - 1)
    OBVIOUS
  <2>2. BlankLine(t, k + 5)
    BY <1>1, <1>5, <2>1 DEF BlankLine, StartsLine
  <2>3. BlockBefore(t, k + 5) = SubSeq(t, k + 1, k + 4)
    BY <1>4, <2>1, BlockIs
  <2>4. PICK b : b = SubSeq(t, k + 1, k + 4)
    OBVIOUS
  <2>5. b \in Seq(S) /\ Len(b) = 4 /\ b[1] = t[k + 1] /\ b[2] = t[k + 2] /\ b[3] = t[k + 3] /\ b[4] = t[k + 4]
    <3>1. k + 1 \in 1..Len(t) /\ k + 4 \in 1..Len(t) /\ (k + 4) - (k + 1) + 1 = 4
      BY <1>5
    <3>2. b \in Seq(S) /\ Len(b) = 4
      BY <2>4, <3>1
    <3>3. \A i \in 1..4 : b[i] = t[(k + 1) + i - 1]
      BY <2>4, <3>1
    <3>4. (k + 1) + 1 - 1 = k + 1 /\ (k + 1) + 2 - 1 = k + 2 /\ (k + 1) + 3 - 1 = k + 3 /\ (k + 1) + 4 - 1 = k + 4
      OBVIOUS
    <3>. QED
      BY <3>2, <3>3, <3>4
  <2>6. Written(b, 0, type, data)
    BY <1>1, <2>5 DEF Written
  <2>. QED
    BY <2>2, <2>3, <2>4, <2>5, <2>6, EventIs
<1>. QED
  BY <1>4, <1>5

\* The events of a text are found at its blank lines.
LEMMA FeedIs ==
  ASSUME NEW S, NEW t \in Seq(S)
  PROVE  Feed(<<>>, t).events = FlattenSeq([i \in 1..Len(t) |->
           IF BlankLine(t, i) THEN EventOf(BlockBefore(t, i)) ELSE <<>>])
<1>1. <<>> \o t = t /\ DOMAIN t = 1..Len(t)
  OBVIOUS
<1>. QED
  BY <1>1 DEF Feed

Event(type, data) == [type |-> type, data |-> <<data>>]

LEMMA FeedOne ==
  ASSUME NEW S, NEW t \in Seq(S), NEW type, NEW data,
         Len(t) = 5, Written(t, 0, type, data), t[5] = Newline
  PROVE  Feed(<<>>, t).events = <<Event(type, data)>>
<1>1. /\ \A i \in 1..4 : ~BlankLine(t, i)
      /\ BlankLine(t, 5) /\ EventOf(BlockBefore(t, 5)) = <<Event(type, data)>>
  <2>1. 0 \in Nat /\ 0 + 4 <= Len(t) /\ 0 + 5 <= Len(t) /\ 0 + 5 = 5 /\ 0 + 1 = 1 /\ 0 + 4 = 4 /\ ~(0 > 0)
    OBVIOUS
  <2>. QED
    BY <2>1, EventAt DEF Event
<1>2. PICK ss : ss = [i \in 1..5 |-> IF BlankLine(t, i) THEN EventOf(BlockBefore(t, i)) ELSE <<>>]
  OBVIOUS
<1>3. Len(ss) = 5 /\ ss[5] = <<Event(type, data)>>
  BY <1>1, <1>2
<1>4. ASSUME NEW i \in 1..5, i # 5 PROVE ss[i] = <<>>
  <2>1. i \in 1..4
    BY <1>4
  <2>. QED
    BY <1>1, <1>2, <2>1
<1>5. 5 \in Nat \ {0} /\ 5 \in 1..5
  OBVIOUS
<1>6. FlattenSeq(ss) = <<Event(type, data)>>
  BY <1>3, <1>4, <1>5, FlattenOne
<1>. QED
  BY <1>2, <1>6, FeedIs

\* A text that ends one event and has begun another, and one that ends both.
Begins(t, type, data, next, rest) ==
  Len(t) >= 9 /\ Written(t, 0, type, data) /\ t[5] = Newline /\ Written(t, 5, next, rest)
Half(t, type, data, next, rest) == Begins(t, type, data, next, rest) /\ Len(t) = 9
Both(t, type, data, next, rest) ==
  Begins(t, type, data, next, rest) /\ Len(t) = 10 /\ t[10] = Newline

LEMMA TwoBlocks ==
  ASSUME NEW S, NEW t \in Seq(S), NEW type, NEW data, NEW next, NEW rest,
         Begins(t, type, data, next, rest)
  PROVE  /\ \A i \in 1..9 : i # 5 => ~BlankLine(t, i)
         /\ BlankLine(t, 5)
         /\ EventOf(BlockBefore(t, 5)) = <<Event(type, data)>>
         /\ Both(t, type, data, next, rest) => BlankLine(t, 10)
         /\ Both(t, type, data, next, rest) => EventOf(BlockBefore(t, 10)) = <<Event(next, rest)>>
<1>0. /\ Len(t) >= 9 /\ Written(t, 0, type, data) /\ t[5] = Newline /\ Written(t, 5, next, rest)
      /\ Both(t, type, data, next, rest) => Len(t) = 10 /\ t[10] = Newline
  BY DEF Begins, Both
<1>1. /\ \A i \in 1..4 : ~BlankLine(t, i)
      /\ BlankLine(t, 5) /\ EventOf(BlockBefore(t, 5)) = <<Event(type, data)>>
  <2>1. 0 \in Nat /\ 0 + 4 <= Len(t) /\ 0 + 5 <= Len(t) /\ 0 + 5 = 5 /\ 0 + 1 = 1 /\ 0 + 4 = 4 /\ ~(0 > 0)
    BY <1>0
  <2>. QED
    BY <1>0, <2>1, EventAt DEF Event
<1>2. /\ \A i \in 6..9 : ~BlankLine(t, i)
      /\ Len(t) >= 10 /\ t[10] = Newline =>
           BlankLine(t, 10) /\ EventOf(BlockBefore(t, 10)) = <<Event(next, rest)>>
  <2>1. 5 \in Nat /\ 5 + 4 <= Len(t) /\ (5 + 5 <= Len(t) <=> Len(t) >= 10)
    BY <1>0
  <2>2. 5 + 5 = 10 /\ 5 + 1 = 6 /\ 5 + 4 = 9
    OBVIOUS
  <2>. QED
    BY <1>0, <1>1, <2>1, <2>2, EventAt DEF Event
<1>3. \A i \in 1..9 : i # 5 => i \in 1..4 \/ i \in 6..9
  OBVIOUS
<1>. QED
  BY <1>0, <1>1, <1>2, <1>3

LEMMA FeedTwo ==
  ASSUME NEW S, NEW t \in Seq(S), NEW type, NEW data, NEW next, NEW rest,
         Both(t, type, data, next, rest)
  PROVE  Feed(<<>>, t).events = <<Event(type, data), Event(next, rest)>>
<1>1. /\ \A i \in 1..9 : i # 5 => ~BlankLine(t, i)
      /\ BlankLine(t, 5) /\ EventOf(BlockBefore(t, 5)) = <<Event(type, data)>>
      /\ BlankLine(t, 10) /\ EventOf(BlockBefore(t, 10)) = <<Event(next, rest)>>
  <2>1. Begins(t, type, data, next, rest)
    BY DEF Both
  <2>. QED
    BY <2>1, TwoBlocks
<1>2. PICK ss : ss = [i \in 1..10 |-> IF BlankLine(t, i) THEN EventOf(BlockBefore(t, i)) ELSE <<>>]
  OBVIOUS
<1>3. PICK e, f : e = Event(type, data) /\ f = Event(next, rest)
  OBVIOUS
<1>0. Len(t) = 10
  BY DEF Both
<1>4. Len(ss) = 10 /\ ss[5] = <<e>> /\ ss[10] = <<f>>
  BY <1>1, <1>2, <1>3
<1>5. \A i \in 1..10 : i # 5 /\ i # 10 => ss[i] = <<>>
  <2>1. \A i \in 1..10 : i # 10 => i \in 1..9
    OBVIOUS
  <2>. QED
    BY <1>1, <1>2, <2>1
<1>6. 10 \in Nat \ {0} /\ 5 \in 1..10 /\ 10 \in 1..10 /\ 5 < 10
  OBVIOUS
<1>7. FlattenSeq(ss) = <<e, f>>
  <2>1. PICK n \in Nat \ {0} : n = 10
    BY <1>6
  <2>4. PICK k \in 1..n : k = 5
    BY <1>6, <2>1
  <2>5. PICK l \in 1..n : l = 10
    BY <1>6, <2>1
  <2>2. Len(ss) = n /\ ss[k] = <<e>> /\ ss[l] = <<f>> /\ k < l
    BY <1>4, <1>6, <2>1, <2>4, <2>5
  <2>3. \A i \in 1..n : i # k /\ i # l => ss[i] = <<>>
    BY <1>5, <2>1, <2>4, <2>5
  <2>. QED
    BY <2>2, <2>3, FlattenTwo
<1>. QED
  BY <1>0, <1>2, <1>3, <1>7, FeedIs

LEMMA FeedHalf ==
  ASSUME NEW S, NEW t \in Seq(S), NEW type, NEW data, NEW next, NEW rest,
         Half(t, type, data, next, rest)
  PROVE  Feed(<<>>, t).events = <<Event(type, data)>>
<1>1. /\ \A i \in 1..9 : i # 5 => ~BlankLine(t, i)
      /\ BlankLine(t, 5) /\ EventOf(BlockBefore(t, 5)) = <<Event(type, data)>>
  <2>1. Begins(t, type, data, next, rest)
    BY DEF Half
  <2>. QED
    BY <2>1, TwoBlocks
<1>0. Len(t) = 9
  BY DEF Half
<1>2. PICK ss : ss = [i \in 1..9 |-> IF BlankLine(t, i) THEN EventOf(BlockBefore(t, i)) ELSE <<>>]
  OBVIOUS
<1>3. PICK e : e = Event(type, data)
  OBVIOUS
<1>4. Len(ss) = 9 /\ ss[5] = <<e>> /\ \A i \in 1..9 : i # 5 => ss[i] = <<>>
  BY <1>1, <1>2, <1>3
<1>5. 9 \in Nat \ {0} /\ 5 \in 1..9
  OBVIOUS
<1>6. FlattenSeq(ss) = <<e>>
  BY <1>4, <1>5, FlattenOne, ZenonT(60)
<1>. QED
  BY <1>0, <1>2, <1>3, <1>6, FeedIs

\* Two sequences, one behind the other.
LEMMA Behind ==
  ASSUME NEW S, NEW x \in Seq(S), NEW y \in Seq(S)
  PROVE  /\ x \o y \in Seq(S) /\ Len(x \o y) = Len(x) + Len(y)
         /\ (\A k \in 1..Len(x) : (x \o y)[k] = x[k])
         /\ (\A k \in 1..Len(y) : (x \o y)[Len(x) + k] = y[k])
  OBVIOUS

LEMMA OneBehind ==
  ASSUME NEW S, NEW x \in Seq(S), NEW e \in S
  PROVE  /\ Append(x, e) \in Seq(S) /\ Len(Append(x, e)) = Len(x) + 1
         /\ (\A k \in 1..Len(x) : Append(x, e)[k] = x[k])
         /\ Append(x, e)[Len(x) + 1] = e
  OBVIOUS

\* The texts a server writes.
LEMMA TextIs ==
  ASSUME NEW S, NEW type, NEW data, {Newline, EventLine(type), DataLine(data)} \subseteq S,
         Named(type)
  PROVE  /\ Unfinished(type, data) \in Seq(S) /\ Len(Unfinished(type, data)) = 4
         /\ Written(Unfinished(type, data), 0, type, data)
         /\ Text(type, data) \in Seq(S) /\ Len(Text(type, data)) = 5
         /\ Written(Text(type, data), 0, type, data) /\ Text(type, data)[5] = Newline
<1>1. PICK e \in S, d \in S, n \in S : e = EventLine(type) /\ d = DataLine(data) /\ n = Newline
  OBVIOUS
<1>2. PICK u : u = <<e, n, d, n>>
  OBVIOUS
<1>3. u \in Seq(S) /\ Len(u) = 4 /\ u[1] = e /\ u[2] = n /\ u[3] = d /\ u[4] = n
  BY <1>2
<1>4. PICK t \in Seq(S) : /\ t = Append(u, n) /\ Len(t) = Len(u) + 1 /\ t[Len(u) + 1] = n
                        /\ (\A k \in 1..Len(u) : t[k] = u[k])
  <2>1. /\ Append(u, n) \in Seq(S) /\ Len(Append(u, n)) = Len(u) + 1
        /\ (\A k \in 1..Len(u) : Append(u, n)[k] = u[k])
        /\ Append(u, n)[Len(u) + 1] = n
    BY <1>3, OneBehind
  <2>. QED
    BY <2>1
<1>5. t \in Seq(S) /\ Len(t) = 5 /\ t[5] = n /\ t[1] = e /\ t[2] = n /\ t[3] = d /\ t[4] = n
  <2>1. t \in Seq(S) /\ Len(t) = 5 /\ t[5] = n /\ \A k \in 1..4 : t[k] = u[k]
    BY <1>3, <1>4
  <2>2. 1 \in 1..4 /\ 2 \in 1..4 /\ 3 \in 1..4 /\ 4 \in 1..4
    OBVIOUS
  <2>. QED
    BY <1>3, <2>1, <2>2
<1>6. Unfinished(type, data) = u /\ Text(type, data) = t
  BY <1>1, <1>2, <1>4 DEF Unfinished, Text
<1>. QED
  BY <1>1, <1>3, <1>5, <1>6 DEF Written

LEMMA StreamsAre ==
  ASSUME NEW a, NEW b, NEW type, Named(type)
  PROVE  /\ Feed(<<>>, Text(type, a)).events = <<Event(type, a)>>
         /\ Feed(<<>>, Text(type, a) \o Text(type, b)).events = <<Event(type, a), Event(type, b)>>
         /\ Feed(<<>>, Text(type, a) \o Unfinished(type, b)).events = <<Event(type, a)>>
<1>1. PICK S : S = {Newline, EventLine(type), DataLine(a), DataLine(b)}
  OBVIOUS
<1>2. PICK x \in Seq(S) : x = Text(type, a) /\ Len(x) = 5 /\ Written(x, 0, type, a) /\ x[5] = Newline
  BY <1>1, TextIs
<1>3. PICK y \in Seq(S) : y = Text(type, b) /\ Len(y) = 5 /\ Written(y, 0, type, b) /\ y[5] = Newline
  BY <1>1, TextIs
<1>4. PICK z \in Seq(S) : z = Unfinished(type, b) /\ Len(z) = 4 /\ Written(z, 0, type, b)
  BY <1>1, TextIs
<1>5. PICK t \in Seq(S) : /\ t = x \o y /\ Len(t) = Len(x) + Len(y)
                        /\ (\A k \in 1..Len(x) : t[k] = x[k])
                        /\ (\A k \in 1..Len(y) : t[Len(x) + k] = y[k])
  <2>1. /\ x \o y \in Seq(S) /\ Len(x \o y) = Len(x) + Len(y)
        /\ (\A k \in 1..Len(x) : (x \o y)[k] = x[k])
        /\ (\A k \in 1..Len(y) : (x \o y)[Len(x) + k] = y[k])
    BY Behind
  <2>. QED
    BY <2>1
<1>6. /\ Len(t) = 10 /\ t[1] = x[1] /\ t[2] = x[2] /\ t[3] = x[3] /\ t[4] = x[4] /\ t[5] = x[5]
      /\ t[6] = y[1] /\ t[7] = y[2] /\ t[8] = y[3] /\ t[9] = y[4] /\ t[10] = y[5]
  <2>1. Len(t) = 5 + 5 /\ (\A k \in 1..5 : t[k] = x[k]) /\ \A k \in 1..5 : t[5 + k] = y[k]
    BY <1>2, <1>3, <1>5
  <2>2. /\ 1 \in 1..5 /\ 2 \in 1..5 /\ 3 \in 1..5 /\ 4 \in 1..5 /\ 5 \in 1..5
        /\ 5 + 1 = 6 /\ 5 + 2 = 7 /\ 5 + 3 = 8 /\ 5 + 4 = 9 /\ 5 + 5 = 10
    OBVIOUS
  <2>. QED
    BY <2>1, <2>2
<1>7. Both(t, type, a, type, b)
  BY <1>2, <1>3, <1>6 DEF Both, Begins, Written
<1>8. PICK v \in Seq(S) : /\ v = x \o z /\ Len(v) = Len(x) + Len(z)
                        /\ (\A k \in 1..Len(x) : v[k] = x[k])
                        /\ (\A k \in 1..Len(z) : v[Len(x) + k] = z[k])
  <2>1. /\ x \o z \in Seq(S) /\ Len(x \o z) = Len(x) + Len(z)
        /\ (\A k \in 1..Len(x) : (x \o z)[k] = x[k])
        /\ (\A k \in 1..Len(z) : (x \o z)[Len(x) + k] = z[k])
    BY Behind
  <2>. QED
    BY <2>1
<1>9. /\ Len(v) = 9 /\ v[1] = x[1] /\ v[2] = x[2] /\ v[3] = x[3] /\ v[4] = x[4] /\ v[5] = x[5]
      /\ v[6] = z[1] /\ v[7] = z[2] /\ v[8] = z[3] /\ v[9] = z[4]
  <2>1. Len(v) = 5 + 4 /\ (\A k \in 1..5 : v[k] = x[k]) /\ \A k \in 1..4 : v[5 + k] = z[k]
    BY <1>2, <1>4, <1>8
  <2>2. /\ 1 \in 1..5 /\ 2 \in 1..5 /\ 3 \in 1..5 /\ 4 \in 1..5 /\ 5 \in 1..5
        /\ 1 \in 1..4 /\ 2 \in 1..4 /\ 3 \in 1..4 /\ 4 \in 1..4
        /\ 5 + 1 = 6 /\ 5 + 2 = 7 /\ 5 + 3 = 8 /\ 5 + 4 = 9
    OBVIOUS
  <2>. QED
    BY <2>1, <2>2
<1>10. Half(v, type, a, type, b)
  BY <1>2, <1>4, <1>9 DEF Half, Begins, Written
<1>11. Feed(<<>>, x).events = <<Event(type, a)>>
  BY <1>2, FeedOne
<1>12. Feed(<<>>, t).events = <<Event(type, a), Event(type, b)>>
  BY <1>7, FeedTwo
<1>13. Feed(<<>>, v).events = <<Event(type, a)>>
  BY <1>10, FeedHalf
<1>. QED
  BY <1>2, <1>3, <1>4, <1>5, <1>8, <1>11, <1>12, <1>13

LEMMA TypesNamed == Named("message") /\ Named("ping")
  BY DEF Named

\* What the client takes out of a reply: at most the answer to what it asked,
\* behind a notification perhaps, or an error that answers nothing.
Answering(msgs, m) ==
  \/ msgs = <<>> \/ msgs = <<ServerEvent>> \/ msgs = <<ErrorForNone>>
  \/ OwesAnswer(m) /\ (msgs = <<ResponseTo(m)>> \/ msgs = <<ServerEvent, ResponseTo(m)>>)

LEMMA MessagesAre ==
  ASSUME NEW a, NEW b
  PROVE  /\ EventMessages(<<Event("ping", <<a>>)>>) = <<>>
         /\ EventMessages(<<Event("message", <<a>>)>>) = <<a>>
         /\ EventMessages(<<Event("message", <<a>>), Event("message", <<b>>)>>) = <<a, b>>
<1>1. ASSUME NEW x PROVE JsonOf(<<x>>) = x
  BY DEF JsonOf
<1>2. ASSUME NEW type, NEW x PROVE Event(type, x).type = type /\ JsonOf(Event(type, x).data) = x
  BY <1>1 DEF Event
<1>3. ASSUME NEW type, NEW ss,
             ss = [k \in DOMAIN <<Event(type, <<a>>)>> |->
                     IF <<Event(type, <<a>>)>>[k].type = "message"
                       THEN JsonOf(<<Event(type, <<a>>)>>[k].data) ELSE <<>>]
      PROVE  Len(ss) = 1 /\ ss[1] = IF type = "message" THEN <<a>> ELSE <<>>
  <2>1. PICK e : e = Event(type, <<a>>)
    OBVIOUS
  <2>2. PICK s : s = <<e>>
    OBVIOUS
  <2>3. DOMAIN s = 1..1 /\ s[1] = e
    BY <2>2
  <2>4. ss = [k \in 1..1 |-> IF s[k].type = "message" THEN JsonOf(s[k].data) ELSE <<>>]
    BY <1>3, <2>1, <2>2, <2>3
  <2>5. Len(ss) = 1 /\ ss[1] = IF e.type = "message" THEN JsonOf(e.data) ELSE <<>>
    BY <2>3, <2>4
  <2>. QED
    BY <1>2, <2>1, <2>5
<1>4. EventMessages(<<Event("ping", <<a>>)>>) = <<>>
  <2>1. \A ss : Len(ss) = 1 /\ ss[1] = <<>> => FlattenSeq(ss) = <<>>
    <3>1. 1 \in Nat \ {0} /\ \A i \in 1..1 : i = 1
      OBVIOUS
    <3>. QED
      BY <3>1, FlattenNone
  <2>2. "ping" # "message"
    OBVIOUS
  <2>. QED
    BY <1>3, <2>1, <2>2 DEF EventMessages
<1>5. EventMessages(<<Event("message", <<a>>)>>) = <<a>>
  <2>1. \A ss : Len(ss) = 1 /\ ss[1] = <<a>> => FlattenSeq(ss) = <<a>>
    <3>1. 1 \in Nat \ {0} /\ 1 \in 1..1 /\ \A i \in 1..1 : i = 1
      OBVIOUS
    <3>. QED
      BY <3>1, FlattenOne
  <2>. QED
    BY <1>3, <2>1 DEF EventMessages
<1>6. EventMessages(<<Event("message", <<a>>), Event("message", <<b>>)>>) = <<a, b>>
  <2>1. PICK e, f : e = Event("message", <<a>>) /\ f = Event("message", <<b>>)
    OBVIOUS
  <2>2. PICK s : s = <<e, f>>
    OBVIOUS
  <2>3. DOMAIN s = 1..2 /\ s[1] = e /\ s[2] = f
    BY <2>2
  <2>4. PICK ss : ss = [k \in 1..2 |-> IF s[k].type = "message" THEN JsonOf(s[k].data) ELSE <<>>]
    OBVIOUS
  <2>5. e.type = "message" /\ JsonOf(e.data) = <<a>> /\ f.type = "message" /\ JsonOf(f.data) = <<b>>
    BY <1>2, <2>1
  <2>6. Len(ss) = 2 /\ ss[1] = <<a>> /\ ss[2] = <<b>>
    BY <2>3, <2>4, <2>5
  <2>7. 2 \in Nat \ {0} /\ 1 \in 1..2 /\ 2 \in 1..2 /\ 1 < 2 /\ \A i \in 1..2 : i = 1 \/ i = 2
    OBVIOUS
  <2>8. FlattenSeq(ss) = <<a, b>>
    BY <2>6, <2>7, FlattenTwo
  <2>9. EventMessages(s) = FlattenSeq(ss)
    BY <2>3, <2>4 DEF EventMessages
  <2>. QED
    BY <2>1, <2>2, <2>8, <2>9
<1>. QED
  BY <1>4, <1>5, <1>6

-----------------------------------------------------------------------------
(* The answers                                                             *)

\* What a reply of the server comes to, whatever it is asked: messages as they
\* are, or the text of a stream.
LEMMA RepliesAre ==
  ASSUME NEW m, NEW r \in Replies(m)
  PROVE  LET reply == <<ResponseTo(m)>>
             event == Text("message", <<ServerEvent>>)
         IN  \/ r.type = "accepted"
             \/ OwesAnswer(m) /\ r.type = "json" /\ r.msgs = reply
             \/ r.type = "json" /\ r.msgs = <<ErrorForNone>>
             \/ OwesAnswer(m) /\ r.type = "unknown" /\ r.msgs = reply
             \/ OwesAnswer(m) /\ r.type = "sse" /\ r.text = event \o Text("message", reply)
             \/ r.type = "sse" /\ r.text = event \o Unfinished("message", reply)
             \/ r.type = "sse" /\ r.text = Text("ping", reply)
<1>1. \A type, msgs : Body(type, msgs).type = type /\ Body(type, msgs).msgs = msgs
  BY DEF Body
<1>2. \A text : Stream(text).type = "sse" /\ Stream(text).text = text
  BY DEF Stream
<1>3. CASE ~OwesAnswer(m)
  <2>1. r = Body("accepted", <<>>)
    BY <1>3 DEF Replies
  <2>. QED
    BY <1>1, <2>1
<1>4. CASE OwesAnswer(m)
  <2>1. PICK reply, event : reply = <<ResponseTo(m)>> /\ event = Text("message", <<ServerEvent>>)
    OBVIOUS
  <2>2. r \in {Body("json", reply), Body("json", <<ErrorForNone>>), Body("unknown", reply),
               Stream(event \o Text("message", reply)), Stream(event \o Unfinished("message", reply)),
               Stream(Text("ping", reply))}
    BY <1>4, <2>1 DEF Replies
  <2>5. PICK none, t1, t2, t3 :
          /\ none = <<ErrorForNone>> /\ t1 = event \o Text("message", reply)
          /\ t2 = event \o Unfinished("message", reply) /\ t3 = Text("ping", reply)
    OBVIOUS
  <2>3. \/ r = Body("json", reply) \/ r = Body("json", none) \/ r = Body("unknown", reply)
        \/ r = Stream(t1) \/ r = Stream(t2) \/ r = Stream(t3)
    BY <2>2, <2>5, Zenon
  <2>4. \/ r.type = "json" /\ r.msgs = reply
        \/ r.type = "json" /\ r.msgs = none
        \/ r.type = "unknown" /\ r.msgs = reply
        \/ r.type = "sse" /\ r.text = t1
        \/ r.type = "sse" /\ r.text = t2
        \/ r.type = "sse" /\ r.text = t3
    BY <1>1, <1>2, <2>3
  <2>. QED
    BY <1>4, <2>1, <2>4, <2>5
<1>. QED
  BY <1>3, <1>4

\* The session's id in the header of a reply changes nothing of its body.
LEMMA NamingKeeps ==
  ASSUME NEW m, NEW r \in Replies(m), NEW w \in {r, [r EXCEPT !.sid = Session]}
  PROVE  /\ w.type = r.type
         /\ r.type \in {"json", "unknown"} => w.msgs = r.msgs
         /\ r.type = "sse" => w.text = r.text
<1>1. ASSUME NEW type, NEW msgs, NEW b, b = Body(type, msgs)
      PROVE  [b EXCEPT !.sid = Session].type = b.type /\ [b EXCEPT !.sid = Session].msgs = b.msgs
  BY <1>1 DEF Body
<1>2. ASSUME NEW text, NEW b, b = Stream(text)
      PROVE  [b EXCEPT !.sid = Session].type = b.type /\ [b EXCEPT !.sid = Session].text = b.text
  BY <1>2 DEF Stream
<1>3. \/ \E type, msgs : type # "sse" /\ r = Body(type, msgs)
      \/ \E text : r = Stream(text)
  BY DEF Replies
<1>4. CASE \E type, msgs : type # "sse" /\ r = Body(type, msgs)
  <2>1. r.type # "sse" /\ r.type \notin {"sse"}
    BY <1>4 DEF Body
  <2>2. PICK u : u = [r EXCEPT !.sid = Session]
    OBVIOUS
  <2>3. u.type = r.type /\ u.msgs = r.msgs
    BY <1>1, <1>4, <2>2
  <2>. QED
    BY <2>1, <2>2, <2>3
<1>5. CASE \E text : r = Stream(text)
  <2>1. r.type = "sse"
    BY <1>5 DEF Stream
  <2>. QED
    BY <1>2, <1>5, <2>1
<1>. QED
  BY <1>3, <1>4, <1>5

\* The messages of a reply.
LEMMA ParsedIs ==
  ASSUME NEW m, NEW r \in Replies(m), NEW w \in {r, [r EXCEPT !.sid = Session]}
  PROVE  Answering(Parsed(w, EventsIn(w)), m)
<1>1. PICK reply : reply = <<ResponseTo(m)>>
  OBVIOUS
<1>2. PICK event : event = Text("message", <<ServerEvent>>)
  OBVIOUS
<1>3. /\ \A x : EventMessages(<<Event("ping", <<x>>)>>) = <<>>
      /\ \A x : EventMessages(<<Event("message", <<x>>)>>) = <<x>>
      /\ \A x, y : EventMessages(<<Event("message", <<x>>), Event("message", <<y>>)>>) = <<x, y>>
  BY MessagesAre
<1>4. w.type = "sse" => Parsed(w, EventsIn(w)) = EventMessages(Feed(<<>>, w.text).events)
  BY DEF Parsed, EventsIn
<1>5. CASE r.type = "accepted"
  <2>1. w.type = "accepted"
    BY <1>5, NamingKeeps
  <2>. QED
    BY <2>1 DEF Parsed, Answering
<1>6. CASE OwesAnswer(m) /\ r.type = "json" /\ r.msgs = reply
  <2>1. w.type = "json" /\ w.msgs = reply
    BY <1>6, NamingKeeps
  <2>. QED
    BY <1>1, <1>6, <2>1 DEF Parsed, Answering
<1>7. CASE r.type = "json" /\ r.msgs = <<ErrorForNone>>
  <2>1. w.type = "json" /\ w.msgs = <<ErrorForNone>>
    BY <1>7, NamingKeeps
  <2>. QED
    BY <2>1 DEF Parsed, Answering
<1>8. CASE OwesAnswer(m) /\ r.type = "unknown" /\ r.msgs = reply
  <2>1. w.type = "unknown" /\ w.msgs = reply
    BY <1>8, NamingKeeps
  <2>2. Parsed(w, EventsIn(w)) \in {reply, <<>>}
    BY <2>1 DEF Parsed
  <2>. QED
    BY <1>1, <1>8, <2>2 DEF Answering
<1>9. CASE OwesAnswer(m) /\ r.type = "sse" /\ r.text = event \o Text("message", reply)
  <2>1. w.type = "sse" /\ w.text = event \o Text("message", reply)
    BY <1>9, NamingKeeps
  <2>2. Feed(<<>>, w.text).events = <<Event("message", <<ServerEvent>>), Event("message", reply)>>
    BY <1>2, <2>1, TypesNamed, StreamsAre
  <2>3. Parsed(w, EventsIn(w)) = <<ServerEvent, ResponseTo(m)>>
    BY <1>1, <1>3, <1>4, <2>1, <2>2, ZenonT(60)
  <2>. QED
    BY <1>9, <2>3 DEF Answering
<1>10. CASE r.type = "sse" /\ r.text = event \o Unfinished("message", reply)
  <2>1. w.type = "sse" /\ w.text = event \o Unfinished("message", reply)
    BY <1>10, NamingKeeps
  <2>2. Feed(<<>>, w.text).events = <<Event("message", <<ServerEvent>>)>>
    BY <1>2, <2>1, TypesNamed, StreamsAre
  <2>3. Parsed(w, EventsIn(w)) = <<ServerEvent>>
    BY <1>3, <1>4, <2>1, <2>2
  <2>. QED
    BY <2>3 DEF Answering
<1>11. CASE r.type = "sse" /\ r.text = Text("ping", reply)
  <2>1. w.type = "sse" /\ w.text = Text("ping", reply)
    BY <1>11, NamingKeeps
  <2>2. Feed(<<>>, w.text).events = <<Event("ping", reply)>>
    BY <2>1, TypesNamed, StreamsAre
  <2>3. Parsed(w, EventsIn(w)) = <<>>
    BY <1>1, <1>3, <1>4, <2>1, <2>2
  <2>. QED
    BY <2>3 DEF Answering
<1>. QED
  BY <1>1, <1>2, <1>5, <1>6, <1>7, <1>8, <1>9, <1>10, <1>11, RepliesAre

\* The messages that may be on stdout.
LEMMA OutgoingAre ==
  /\ ServerEvent \in Outgoing /\ ~IsAnswer(ServerEvent)
  /\ ErrorForNone \in Outgoing /\ ~IsAnswer(ErrorForNone)
  /\ \A m \in Sendable : ResponseTo(m) \in Outgoing /\ ResponseTo(m).name = m.name
  BY DEF ServerEvent, ErrorForNone, ResponseTo, Message, Outgoing, IsAnswer, Sendable, LineMessage,
         SyntheticInit, Initialized

\* The one reply among what a reply puts on stdout is last, and it answers
\* what was asked.
AnswerLast(out, m) ==
  /\ out \in Seq(Outgoing)
  /\ \A i \in DOMAIN out : IsAnswer(out[i]) =>
       i = Len(out) /\ OwesAnswer(m) /\ out[i] = ResponseTo(m)

LEMMA AnsweringIs ==
  ASSUME NEW m \in Sendable, NEW msgs, Answering(msgs, m)
  PROVE  AnswerLast(msgs, m)
<1>1. PICK e \in Outgoing : e = ServerEvent /\ ~IsAnswer(e)
  BY OutgoingAre
<1>2. PICK n \in Outgoing : n = ErrorForNone /\ ~IsAnswer(n)
  BY OutgoingAre
<1>3. PICK a \in Outgoing : a = ResponseTo(m)
  BY OutgoingAre
<1>4. CASE msgs = <<>>
  BY <1>4 DEF AnswerLast
<1>5. CASE msgs = <<e>>
  BY <1>1, <1>5 DEF AnswerLast
<1>6. CASE msgs = <<n>>
  BY <1>2, <1>6 DEF AnswerLast
<1>7. CASE OwesAnswer(m) /\ msgs = <<a>>
  BY <1>3, <1>7 DEF AnswerLast
<1>8. CASE OwesAnswer(m) /\ msgs = <<e, a>>
  <2>1. msgs \in Seq(Outgoing) /\ Len(msgs) = 2 /\ msgs[1] = e /\ msgs[2] = a
    BY <1>8
  <2>2. \A i \in DOMAIN msgs : i = 1 \/ i = 2
    BY <2>1
  <2>. QED
    BY <1>1, <1>3, <1>8, <2>1, <2>2 DEF AnswerLast
<1>. QED
  BY <1>1, <1>2, <1>3, <1>4, <1>5, <1>6, <1>7, <1>8 DEF Answering

\* Without the reply to the gateway's own initialize there is none.
LEMMA RemovedIs ==
  ASSUME NEW msgs, NEW m, Answering(msgs, m), ServerEvent # ResponseTo(m), ErrorForNone # ResponseTo(m)
  PROVE  \/ RemoveFirst(msgs, ResponseTo(m)) = <<>>
         \/ RemoveFirst(msgs, ResponseTo(m)) = <<ServerEvent>>
         \/ RemoveFirst(msgs, ResponseTo(m)) = <<ErrorForNone>>
<1>1. PICK a : a = ResponseTo(m)
  OBVIOUS
<1>2. PICK e : e = ServerEvent /\ e # a
  BY <1>1
<1>3. CASE msgs = <<a>>
  <2>1. Len(msgs) = 1 /\ msgs[1] = a
    BY <1>3
  <2>2. {i \in 1..Len(msgs) : msgs[i] = a} = {1}
    BY <2>1
  <2>3. SelectInSeq(msgs, LAMBDA v : v = a) = 1
    BY <2>2 DEF SelectInSeq, Min
  <2>4. RemoveAt(msgs, 1) = <<>>
    BY <1>3 DEF RemoveAt
  <2>5. \E i \in 1..Len(msgs) : msgs[i] = a
    BY <2>1
  <2>6. RemoveFirst(msgs, a) = RemoveAt(msgs, SelectInSeq(msgs, LAMBDA v : v = a))
    BY <2>5, Zenon DEF RemoveFirst
  <2>. QED
    BY <1>1, <2>3, <2>4, <2>6
<1>4. CASE msgs = <<e, a>>
  <2>1. Len(msgs) = 2 /\ msgs[1] = e /\ msgs[2] = a
    BY <1>4
  <2>2. {i \in 1..Len(msgs) : msgs[i] = a} = {2}
    BY <1>2, <2>1
  <2>3. SelectInSeq(msgs, LAMBDA v : v = a) = 2
    BY <2>2 DEF SelectInSeq, Min
  <2>4. RemoveAt(msgs, 2) = <<e>>
    <3>1. msgs \in Seq({e, a})
      BY <1>4
    <3>2. PICK h, t : h = SubSeq(msgs, 1, 2 - 1) /\ t = SubSeq(msgs, 2 + 1, Len(msgs))
      OBVIOUS
    <3>3. h \in Seq({e, a}) /\ Len(h) = 1 /\ h[1] = e
      BY <2>1, <3>1, <3>2
    <3>4. h = <<e>>
      BY <3>3
    <3>5. t = <<>>
      BY <2>1, <3>1, <3>2
    <3>6. <<e>> \o <<>> = <<e>>
      OBVIOUS
    <3>. QED
      BY <3>2, <3>4, <3>5, <3>6, Zenon DEF RemoveAt
  <2>5. \E i \in 1..Len(msgs) : msgs[i] = a
    BY <2>1
  <2>6. RemoveFirst(msgs, a) = RemoveAt(msgs, SelectInSeq(msgs, LAMBDA v : v = a))
    BY <2>5, Zenon DEF RemoveFirst
  <2>. QED
    BY <1>1, <1>2, <2>3, <2>4, <2>6
<1>5. CASE msgs = <<>> \/ msgs = <<ServerEvent>> \/ msgs = <<ErrorForNone>>
  <2>1. \A i \in 1..Len(msgs) : msgs[i] # a
    BY <1>1, <1>5
  <2>. QED
    BY <1>1, <1>5, <2>1 DEF RemoveFirst
<1>. QED
  BY <1>1, <1>2, <1>3, <1>4, <1>5 DEF Answering

\* What a reply puts on stdout: the answer to the gateway's own initialize is
\* kept back.
LEMMA ShownIs ==
  ASSUME NEW m \in Sendable, NEW msgs, Answering(msgs, m), NEW ph, NEW q,
         ph.kind = "waiting" => ph.init = m,
         m = SyntheticInit => ph.kind = "waiting"
  PROVE  /\ AnswerLast(HandleResponse(ph, q, msgs).stdout, m)
         /\ m = SyntheticInit =>
              \A i \in DOMAIN HandleResponse(ph, q, msgs).stdout :
                ~IsAnswer(HandleResponse(ph, q, msgs).stdout[i])
<1>1. PICK out : out = HandleResponse(ph, q, msgs).stdout
  OBVIOUS
<1>2. CASE m = SyntheticInit
  <2>1. ph.kind = "waiting" /\ ph.init = m
    BY <1>2
  <2>2. ServerEvent # ResponseTo(m) /\ ErrorForNone # ResponseTo(m)
    BY <1>2 DEF ServerEvent, ErrorForNone, ResponseTo, SyntheticInit, Message
  <2>3. out = <<>> \/ out = <<ServerEvent>> \/ out = <<ErrorForNone>>
    <3>1. CASE ResponseTo(m) \in ToSet(msgs)
      <4>1. \E x \in ToSet(msgs) : IsInitAnswer(x, ph.init)
        BY <2>1, <3>1 DEF IsInitAnswer
      <4>2. out = Shown(ph.init, msgs)
        BY <1>1, <2>1, <4>1 DEF HandleResponse
      <4>3. out = RemoveFirst(msgs, ResponseTo(m))
        BY <1>2, <2>1, <4>2 DEF Shown
      <4>. QED
        BY <2>2, <4>3, RemovedIs
    <3>2. CASE ResponseTo(m) \notin ToSet(msgs)
      <4>1. ~ \E x \in ToSet(msgs) : IsInitAnswer(x, ph.init)
        BY <2>1, <3>2 DEF IsInitAnswer
      <4>2. out = msgs
        BY <1>1, <4>1 DEF HandleResponse
      <4>3. \A x, y : x \in ToSet(<<x>>) /\ y \in ToSet(<<x, y>>)
        <5>1. ASSUME NEW x, NEW y PROVE x \in ToSet(<<x>>) /\ y \in ToSet(<<x, y>>)
          <6>1. 1 \in DOMAIN <<x>> /\ <<x>>[1] = x
            OBVIOUS
          <6>2. 2 \in DOMAIN <<x, y>> /\ <<x, y>>[2] = y
            OBVIOUS
          <6>. QED
            BY <6>1, <6>2 DEF ToSet
        <5>. QED
          BY <5>1
      <4>4. msgs # <<ResponseTo(m)>> /\ msgs # <<ServerEvent, ResponseTo(m)>>
        BY <3>2, <4>3
      <4>. QED
        BY <4>2, <4>4 DEF Answering
    <3>. QED
      BY <3>1, <3>2
  <2>4. \A i \in DOMAIN out : ~IsAnswer(out[i])
    BY <2>3, OutgoingAre
  <2>5. out \in Seq(Outgoing)
    <3>1. PICK e \in Outgoing, n \in Outgoing : e = ServerEvent /\ n = ErrorForNone
      BY OutgoingAre
    <3>2. out = <<>> \/ out = <<e>> \/ out = <<n>>
      BY <2>3, <3>1
    <3>3. <<>> \in Seq(Outgoing) /\ <<e>> \in Seq(Outgoing) /\ <<n>> \in Seq(Outgoing)
      OBVIOUS
    <3>. QED
      BY <3>2, <3>3
  <2>. QED
    BY <1>1, <2>4, <2>5 DEF AnswerLast
<1>3. CASE m # SyntheticInit
  <2>1. ph.kind = "waiting" => Shown(ph.init, msgs) = msgs
    BY <1>3 DEF Shown
  <2>2. out = msgs
    BY <1>1, <2>1 DEF HandleResponse
  <2>. QED
    BY <1>1, <1>3, <2>2, AnsweringIs
<1>. QED
  BY <1>2, <1>3

\* The names of the lines that were POSTed: lines that were read, and rising.
LEMMA PostedAre ==
  ASSUME QueuesTypeOK, LinesInOrder
  PROVE  /\ \A k \in DOMAIN posted : IsLine(posted[k]) =>
              posted[k].name \in 1..read /\ posted[k] = Line(posted[k].name)
         /\ \A j, k \in DOMAIN posted : j < k /\ IsLine(posted[j]) /\ IsLine(posted[k])
              => posted[j].name < posted[k].name
<1>1. PICK x \in Seq(Sendable), u \in Seq(Sendable) :
        /\ x = posted \o outbox \o queue \o chan /\ u = Unread
        /\ Len(posted) <= Len(x) /\ \A k \in 1..Len(posted) : x[k] = posted[k]
  <2>1. PICK p \in Seq(Sendable), o \in Seq(Sendable), q \in Seq(Sendable), c \in Seq(Sendable) :
          p = posted /\ o = outbox /\ q = queue /\ c = chan
    BY AllIs
  <2>2. PICK y \in Seq(Sendable) : y = p \o o /\ Len(p) <= Len(y) /\ \A k \in 1..Len(p) : y[k] = p[k]
    <3>1. /\ p \o o \in Seq(Sendable) /\ Len(p) <= Len(p \o o)
          /\ \A k \in 1..Len(p) : (p \o o)[k] = p[k]
      OBVIOUS
    <3>. QED
      BY <3>1
  <2>3. PICK z \in Seq(Sendable) : z = y \o q /\ Len(y) <= Len(z) /\ \A k \in 1..Len(y) : z[k] = y[k]
    <3>1. /\ y \o q \in Seq(Sendable) /\ Len(y) <= Len(y \o q)
          /\ \A k \in 1..Len(y) : (y \o q)[k] = y[k]
      OBVIOUS
    <3>. QED
      BY <3>1
  <2>4. PICK x \in Seq(Sendable) : x = z \o c /\ Len(z) <= Len(x) /\ \A k \in 1..Len(z) : x[k] = z[k]
    <3>1. /\ z \o c \in Seq(Sendable) /\ Len(z) <= Len(z \o c)
          /\ \A k \in 1..Len(z) : (z \o c)[k] = z[k]
      OBVIOUS
    <3>. QED
      BY <3>1
  <2>5. Len(p) \in Nat /\ Len(y) \in Nat /\ Len(z) \in Nat /\ Len(x) \in Nat
    OBVIOUS
  <2>6. Len(p) <= Len(x) /\ \A k \in 1..Len(p) : x[k] = p[k]
    BY <2>2, <2>3, <2>4, <2>5
  <2>7. x = posted \o outbox \o queue \o chan
    BY <2>1, <2>2, <2>3, <2>4
  <2>. QED
    BY <2>1, <2>6, <2>7, AllIs
<1>2. PICK n \in Nat, len \in Nat : n = Len(posted) /\ len = Len(x) /\ n <= len
  BY <1>1, AllIs
<1>3. PICK all : /\ all = x \o u /\ AreTheLines(all) /\ DOMAIN all = 1..(len + Len(u))
                 /\ (\A k \in 1..len : all[k] = x[k]) /\ \A k \in 1..Len(u) : all[len + k] = u[k]
  <2>1. /\ DOMAIN (x \o u) = 1..(Len(x) + Len(u)) /\ (\A k \in 1..Len(x) : (x \o u)[k] = x[k])
        /\ \A k \in 1..Len(u) : (x \o u)[Len(x) + k] = u[k]
    OBVIOUS
  <2>2. AreTheLines(x \o u)
    BY <1>1 DEF LinesInOrder
  <2>. QED
    BY <1>2, <2>1, <2>2
<1>4. /\ \A k \in DOMAIN posted : k \in 1..len /\ k \in DOMAIN all /\ all[k] = posted[k]
      /\ Len(u) \in Nat
  <2>1. DOMAIN posted = 1..n
    BY <1>2, AllIs
  <2>. QED
    BY <1>1, <1>2, <1>3, <2>1
<1>5. ASSUME NEW k \in DOMAIN posted, IsLine(posted[k])
      PROVE  posted[k].name \in 1..read /\ posted[k] = Line(posted[k].name)
  <2>1. PICK i : i = posted[k].name
    OBVIOUS
  <2>2. i \in DOMAIN script /\ posted[k] = Line(i)
    BY <1>3, <1>4, <1>5, <2>1 DEF AreTheLines
  <2>3. i \in 1..Len(script) /\ Len(script) \in Nat /\ read \in 0..Len(script)
    BY <2>2, AllIs
  <2>4. ASSUME i > read PROVE FALSE
    <3>1. PICK j : j = i - read
      OBVIOUS
    <3>2. j \in 1..Len(u) /\ j \in Nat /\ read + j = i
      BY <1>1, <2>3, <2>4, <3>1, AllIs
    <3>3. u[j] = Line(i)
      BY <1>1, <3>2, AllIs
    <3>4. len + j \in DOMAIN all /\ all[len + j] = posted[k] /\ k < len + j /\ k \in DOMAIN all
      BY <1>2, <1>3, <1>4, <2>2, <3>2, <3>3
    <3>5. posted[k].name < posted[k].name
      BY <1>3, <1>4, <1>5, <3>4 DEF AreTheLines
    <3>. QED
      BY <2>1, <2>3, <3>5
  <2>. QED
    BY <2>1, <2>2, <2>3, <2>4
<1>6. ASSUME NEW j \in DOMAIN posted, NEW k \in DOMAIN posted, j < k, IsLine(posted[j]), IsLine(posted[k])
      PROVE  posted[j].name < posted[k].name
  BY <1>3, <1>4, <1>6 DEF AreTheLines
<1>. QED
  BY <1>5, <1>6

\* Exchange and answers, begun and kept: one lemma per action.
LEMMA AnswersBegin == HttpInit => ExchangeFits /\ AnswersFit
<1>. SUFFICES ASSUME HttpInit PROVE ExchangeFits /\ AnswersFit
  OBVIOUS
<1>1. stdout = <<>> /\ wire = Idle /\ phase # Ready
  BY DEF HttpInit, Pending, Ready
<1>2. wire.type = "idle" /\ DOMAIN stdout = {} /\ stdout \in Seq(Outgoing)
  BY <1>1 DEF Idle
<1>. QED
  BY <1>1, <1>2 DEF ExchangeFits, AnswersFit

LEMMA AnswersStay ==
  ASSUME AnswersFit, UNCHANGED <<posted, stdout>>, wire' = Idle \/ wire # Idle
  PROVE  AnswersFit'
  BY DEF AnswersFit

LEMMA ReadLineAnswers ==
  ASSUME ExchangeFits, AnswersFit, ReadLine \/ BeginDelete \/ Exit \/ ServerDeletes \/ UNCHANGED hvars
  PROVE  (ExchangeFits /\ AnswersFit)'
<1>1. UNCHANGED <<phase, outbox, posted, wire, stdout>>
  BY DEF ReadLine, BeginDelete, Exit, ServerDeletes, hvars, taskVars
<1>. QED
  BY <1>1 DEF ExchangeFits, AnswersFit, Asked

LEMMA TakeLineAnswers ==
  ASSUME Handshake, ExchangeFits, AnswersFit, TakeLine
  PROVE  (ExchangeFits /\ AnswersFit)'
<1>1. /\ chan # <<>> /\ level = "idle" /\ wire = Idle /\ outbox = <<>>
      /\ UNCHANGED <<posted, wire, stdout>>
  BY DEF TakeLine, Handshake, LevelFits
<1>2. AnswersFit'
  <2>1. wire' = Idle
    BY <1>1
  <2>. QED
    BY <1>1, <2>1, AnswersStay
<1>3. wire'.type = "idle" /\ wire' = Idle
  BY <1>1 DEF Idle
<1>4. phase' = Ready => \A k \in DOMAIN outbox' : outbox'[k] # SyntheticInit
  <2>1. PICK m : m = Head(chan)
    OBVIOUS
  <2>2. m \in LineMessage /\ m # SyntheticInit
    <3>1. chan \in Seq(LineMessage)
      BY DEF Handshake, QueuesTypeOK
    <3>. QED
      BY <1>1, <2>1, <3>1, Kinds
  <2>3. CASE ~IsMessage(m.type)
    <3>1. outbox' = <<>>
      BY <1>1, <2>1, <2>3 DEF TakeLine
    <3>. QED
      BY <3>1
  <2>4. CASE IsMessage(m.type)
    <3>1. phase' = HandleStdin(phase, queue, m).phase /\ outbox' = HandleStdin(phase, queue, m).post
      BY <2>1, <2>4 DEF TakeLine
    <3>2. phase' = Ready => outbox' = <<m>>
      <4>1. CASE phase = Pending
        BY <3>1, <4>1 DEF HandleStdin, Pending, Ready, Waiting
      <4>2. CASE phase.kind = "waiting"
        BY <3>1, <4>2 DEF HandleStdin, Ready
      <4>3. CASE phase = Ready
        BY <3>1, <4>3 DEF HandleStdin, Ready
      <4>. QED
        BY <4>1, <4>2, <4>3 DEF Handshake, PhaseFits
    <3>3. \A k \in DOMAIN <<m>> : <<m>>[k] = m
      OBVIOUS
    <3>. QED
      BY <2>2, <3>2, <3>3
  <2>. QED
    BY <2>3, <2>4
<1>5. ExchangeFits'
  BY <1>3, <1>4 DEF ExchangeFits
<1>. QED
  BY <1>2, <1>5

LEMMA PostAnswers ==
  ASSUME Handshake, ExchangeFits, AnswersFit, Post
  PROVE  (ExchangeFits /\ AnswersFit)'
<1>1. /\ outbox # <<>> /\ wire = Idle /\ posted' = Append(posted, Head(outbox))
      /\ outbox' = Tail(outbox) /\ wire' = Sent(sid) /\ UNCHANGED <<phase, stdout>>
  BY DEF Post
<1>2. posted \in Seq(Sendable) /\ outbox \in Seq(Sendable)
  BY DEF Handshake, QueuesTypeOK
<1>3. PICK h \in Sendable : h = Head(outbox) /\ h = outbox[1] /\ 1 \in DOMAIN outbox
  BY <1>1, <1>2
<1>4. /\ posted' = Append(posted, h) /\ Len(posted') = Len(posted) + 1 /\ posted' # <<>>
      /\ posted'[Len(posted')] = h
      /\ \A k \in DOMAIN posted : /\ k \in DOMAIN posted' /\ posted'[k] = posted[k] /\ k < Len(posted')
  BY <1>1, <1>2, <1>3
<1>5. wire'.type = "sent" /\ wire' # Idle
  BY <1>1 DEF Sent, Idle
<1>6. AnswersFit'
  BY <1>1, <1>4 DEF AnswersFit
<1>7. \A k \in DOMAIN outbox' : k + 1 \in DOMAIN outbox /\ outbox'[k] = outbox[k + 1]
  BY <1>1, <1>2
<1>8. ExchangeFits'
  BY <1>1, <1>3, <1>4, <1>5, <1>7 DEF ExchangeFits, Asked
<1>. QED
  BY <1>6, <1>8

LEMMA ServerAnswers ==
  ASSUME Handshake, ExchangeFits, AnswersFit, ServerReplies
  PROVE  (ExchangeFits /\ AnswersFit)'
<1>1. wire.type = "sent" /\ UNCHANGED <<phase, outbox, posted, stdout>> /\ Asked' = Asked
  BY DEF ServerReplies, Asked
<1>2. wire # Idle
  BY <1>1 DEF Idle
<1>3. AnswersFit'
  BY <1>1, <1>2, AnswersStay
<1>4. wire'.type = "error" \/ \E r \in Replies(Asked) : wire' \in {r, [r EXCEPT !.sid = Session]}
  BY DEF ServerReplies, Asked, HttpError
<1>5. ExchangeFits'
  BY <1>1, <1>2, <1>4 DEF ExchangeFits
<1>. QED
  BY <1>3, <1>5

LEMMA ErrorAnswers ==
  ASSUME ExchangeFits, AnswersFit, ReceiveError \/ ConnectionBreaks
  PROVE  (ExchangeFits /\ AnswersFit)'
<1>1. wire' = Idle /\ wire'.type = "idle" /\ UNCHANGED <<phase, outbox, posted, stdout>>
  BY DEF ReceiveError, ConnectionBreaks, HandleError, Idle
<1>2. AnswersFit'
  BY <1>1, AnswersStay
<1>3. ExchangeFits'
  BY <1>1 DEF ExchangeFits
<1>. QED
  BY <1>2, <1>3

\* A reply that is read: what was asked is behind all that was answered.
LEMMA ReceiveAnswers ==
  ASSUME Handshake, LinesInOrder, ExchangeFits, AnswersFit, Receive
  PROVE  (ExchangeFits /\ AnswersFit)'
<1>0. QueuesTypeOK /\ PhaseFits /\ LevelFits
  BY DEF Handshake
<1>1. /\ wire.type \notin {"idle", "sent", "error"} /\ wire # Idle /\ wire' = Idle /\ wire'.type = "idle"
      /\ UNCHANGED posted
  BY DEF Receive, Idle
<1>2. PICK msgs, r : /\ msgs = Parsed(wire, EventsIn(wire)) /\ r = HandleResponse(phase, queue, msgs)
                     /\ phase' = r.phase /\ stdout' = stdout \o r.stdout /\ outbox' = Left(r)
  BY DEF Receive
<1>3. PICK m : m = Asked
  OBVIOUS
<1>4. PICK n \in Nat \ {0} : /\ n = Len(posted) /\ n \in DOMAIN posted /\ m = posted[n] /\ m \in Sendable
                            /\ \A k \in DOMAIN posted : k \in 1..n
  <2>1. posted \in Seq(Sendable) /\ posted # <<>>
    BY <1>0, <1>1 DEF QueuesTypeOK, ExchangeFits
  <2>. QED
    BY <1>3, <2>1 DEF Asked
<1>5. /\ phase = Ready => m # SyntheticInit
      /\ phase = Ready \/ (phase.kind = "waiting" /\ phase.init = m /\ outbox = <<>>)
      /\ phase = Ready => phase.kind # "waiting"
  <2>1. CASE phase = Pending
    BY <1>0, <1>1, <2>1 DEF PhaseFits, ExchangeFits, Pending, Ready, Waiting
  <2>2. CASE phase.kind = "waiting"
    <3>1. posted = <<phase.init>> /\ outbox = <<>>
      BY <1>0, <1>1, <2>2 DEF PhaseFits, ExchangeFits, Pending, Ready
    <3>. QED
      BY <1>4, <2>2, <3>1 DEF Ready
  <2>3. CASE phase = Ready
    BY <1>0, <1>1, <1>3, <2>3 DEF ExchangeFits, Ready
  <2>. QED
    BY <1>0, <2>1, <2>2, <2>3 DEF PhaseFits
<1>6. PICK out \in Seq(Outgoing) :
        /\ out = r.stdout
        /\ \A i \in DOMAIN out : IsAnswer(out[i]) =>
             i = Len(out) /\ OwesAnswer(m) /\ out[i] = ResponseTo(m) /\ m # SyntheticInit
  <2>1. Answering(msgs, m)
    BY <1>0, <1>1, <1>2, <1>3, ParsedIs DEF ExchangeFits
  <2>2. /\ phase.kind = "waiting" => phase.init = m
        /\ m = SyntheticInit => phase.kind = "waiting"
    BY <1>5
  <2>3. /\ AnswerLast(r.stdout, m)
        /\ m = SyntheticInit => \A i \in DOMAIN r.stdout : ~IsAnswer(r.stdout[i])
    BY <1>2, <1>4, <2>1, <2>2, ShownIs
  <2>. QED
    BY <2>3 DEF AnswerLast
<1>7. OwesAnswer(m) /\ m # SyntheticInit => IsLine(m)
  BY <1>4 DEF OwesAnswer, IsLine, IsMessage, Sendable, LineMessage, Initialized, Message
<1>8. PICK old \in Seq(Outgoing), new \in Seq(Outgoing) :
        /\ old = stdout /\ new = stdout'
        /\ (\A i \in DOMAIN new :
              \/ i \in DOMAIN old /\ new[i] = old[i]
              \/ i - Len(old) \in DOMAIN out /\ new[i] = out[i - Len(old)] /\ i > Len(old))
        /\ Len(new) = Len(old) + Len(out)
  <2>1. PICK old \in Seq(Outgoing) : old = stdout
    BY <1>0 DEF AnswersFit
  <2>2. /\ old \o out \in Seq(Outgoing) /\ Len(old \o out) = Len(old) + Len(out)
        /\ \A i \in DOMAIN (old \o out) :
             \/ i \in DOMAIN old /\ (old \o out)[i] = old[i]
             \/ i - Len(old) \in DOMAIN out /\ (old \o out)[i] = out[i - Len(old)] /\ i > Len(old)
    OBVIOUS
  <2>3. stdout' = old \o out
    BY <1>2, <1>6, <2>1
  <2>. QED
    BY <2>1, <2>2, <2>3
<1>9. ASSUME NEW i \in DOMAIN new, IsAnswer(new[i])
      PROVE  \/ i \in DOMAIN old /\ new[i] = old[i]
             \/ i = Len(new) /\ IsLine(m) /\ OwesAnswer(m) /\ new[i].name = m.name
  <2>1. CASE i \in DOMAIN old /\ new[i] = old[i]
    BY <2>1
  <2>2. CASE i - Len(old) \in DOMAIN out /\ new[i] = out[i - Len(old)] /\ i > Len(old)
    <3>1. i - Len(old) = Len(out) /\ OwesAnswer(m) /\ new[i] = ResponseTo(m) /\ m # SyntheticInit
      BY <1>6, <1>9, <2>2
    <3>2. new[i].name = m.name
      BY <1>4, <3>1, OutgoingAre
    <3>3. i = Len(new)
      BY <1>8, <3>1
    <3>. QED
      BY <1>7, <3>1, <3>2, <3>3
  <2>. QED
    BY <1>8, <2>1, <2>2
<1>10. \A i \in DOMAIN old : IsAnswer(old[i]) =>
         \E k \in DOMAIN posted : /\ IsLine(posted[k]) /\ OwesAnswer(posted[k])
                                  /\ old[i].name = posted[k].name /\ k < n
  BY <1>0, <1>1, <1>4, <1>8 DEF AnswersFit
<1>11. AnswersFit'
  <2>1. stdout' \in Seq(Outgoing)
    BY <1>8
  <2>2. \A i \in DOMAIN new : IsAnswer(new[i]) =>
          \E k \in DOMAIN posted : IsLine(posted[k]) /\ OwesAnswer(posted[k]) /\ new[i].name = posted[k].name
    BY <1>4, <1>9, <1>10
  <2>3. ASSUME NEW i \in DOMAIN new, NEW j \in DOMAIN new, i < j, IsAnswer(new[i]), IsAnswer(new[j])
        PROVE  new[i].name < new[j].name
    <3>1. i # Len(new)
      BY <1>8, <2>3
    <3>2. i \in DOMAIN old /\ new[i] = old[i] /\ IsAnswer(old[i])
      BY <1>9, <2>3, <3>1
    <3>3. CASE j \in DOMAIN old /\ new[j] = old[j]
      BY <1>0, <1>8, <2>3, <3>2, <3>3 DEF AnswersFit
    <3>4. CASE IsLine(m) /\ new[j].name = m.name
      <4>1. PICK k \in DOMAIN posted : IsLine(posted[k]) /\ old[i].name = posted[k].name /\ k < n
        BY <1>10, <3>2
      <4>2. posted[k].name < posted[n].name
        BY <1>0, <1>4, <3>4, <4>1, PostedAre
      <4>. QED
        BY <1>4, <3>2, <3>4, <4>1, <4>2
    <3>. QED
      BY <1>9, <2>3, <3>3, <3>4
  <2>. QED
    BY <1>1, <1>8, <2>1, <2>2, <2>3 DEF AnswersFit
<1>12. phase' = Ready => \A k \in DOMAIN outbox' : outbox'[k] # SyntheticInit
  <2>1. CASE phase = Ready
    <3>1. r.post = <<>>
      BY <1>2, <1>5, <2>1 DEF HandleResponse
    <3>2. outbox' = <<>> \/ outbox' = outbox
      BY <1>2, <3>1 DEF Left
    <3>3. DOMAIN <<>> = {}
      OBVIOUS
    <3>. QED
      BY <1>0, <2>1, <3>2, <3>3 DEF ExchangeFits
  <2>2. CASE phase # Ready
    <3>1. outbox = <<>> /\ phase.kind = "waiting" /\ phase.init = m
      BY <1>5, <2>2
    <3>2. PICK q \in Seq(LineMessage) : q = queue
      BY <1>0 DEF QueuesTypeOK
    <3>3. r.post \in {<<>>, FollowUps(m, q)}
      BY <1>2, <3>1, <3>2 DEF HandleResponse
    <3>4. FollowUps(m, q) \in {q, <<Initialized>> \o q}
      BY DEF FollowUps
    <3>5. \A k \in DOMAIN q : q[k] # SyntheticInit
      BY Kinds
    <3>6. \A k \in DOMAIN (<<Initialized>> \o q) : (<<Initialized>> \o q)[k] # SyntheticInit
      <4>1. PICK x \in Sendable : x = Initialized /\ x # SyntheticInit
        BY Kinds
      <4>2. q \in Seq(Sendable)
        BY Kinds
      <4>3. \A k \in DOMAIN (<<x>> \o q) :
              (<<x>> \o q)[k] = x \/ \E l \in DOMAIN q : (<<x>> \o q)[k] = q[l]
        BY <4>2
      <4>. QED
        BY <3>5, <4>1, <4>3
    <3>7. outbox' = <<>> \/ outbox' = q \/ outbox' = <<Initialized>> \o q
      BY <1>2, <3>1, <3>3, <3>4 DEF Left
    <3>8. DOMAIN <<>> = {}
      OBVIOUS
    <3>. QED
      BY <3>5, <3>6, <3>7, <3>8
  <2>. QED
    BY <2>1, <2>2
<1>13. ExchangeFits'
  BY <1>1, <1>12 DEF ExchangeFits
<1>. QED
  BY <1>11, <1>13

LEMMA AnswersStep ==
  ASSUME Handshake, LinesInOrder, ExchangeFits, AnswersFit, [HttpNext]_hvars
  PROVE  (ExchangeFits /\ AnswersFit)'
  BY ReadLineAnswers, TakeLineAnswers, PostAnswers, ServerAnswers, ReceiveAnswers, ErrorAnswers
  DEF HttpNext

\* Every answer a process reads on stdout is to a line it wrote and asks for
\* one, and the answers keep the order of the lines.
LEMMA AnswersFollow ==
  ASSUME ClientIInv
  PROVE  AnswersAreForLines
<1>1. QueuesTypeOK /\ LinesInOrder /\ AnswersFit
  BY DEF ClientIInv
<1>2. ASSUME NEW i \in DOMAIN stdout, IsAnswer(stdout[i])
      PROVE  stdout[i].name \in 1..read /\ OwesAnswer(Line(stdout[i].name))
  <2>1. PICK k \in DOMAIN posted : /\ IsLine(posted[k]) /\ OwesAnswer(posted[k])
                                   /\ stdout[i].name = posted[k].name
    BY <1>1, <1>2 DEF AnswersFit
  <2>2. posted[k].name \in 1..read /\ posted[k] = Line(posted[k].name)
    BY <1>1, <2>1, PostedAre
  <2>. QED
    BY <2>1, <2>2
<1>. QED
  BY <1>1, <1>2 DEF AnswersAreForLines, AnswersFit

-----------------------------------------------------------------------------
\* The phases, the POST under way, the session's id, the lines and the answers
\* hold together, whatever the server answers and whenever connections break.
THEOREM ClientInvariant == HttpSpec => []ClientIInv
<1>. DEFINE I == Handshake /\ LinesInOrder /\ ExchangeFits /\ AnswersFit
<1>1. HttpInit => I
  BY HandshakeInit, LinesInit, AnswersBegin
<1>2. I /\ [HttpNext]_hvars => I'
  BY HandshakeStep, LinesStep, AnswersStep
<1>3. I => ClientIInv
  BY DEF Handshake, ClientIInv
<1>. QED
  BY <1>1, <1>2, <1>3, PTL DEF HttpSpec

\* Types, and that the channel of stdin keeps to its capacity.
THEOREM ClientTypesHold == HttpSpec => []ClientTypeOK
<1>1. HttpInit /\ ClientIInv => ClientTypeOK
  BY ChanCapIsPositive DEF HttpInit, ClientIInv, ClientTypeOK, NotSent, NoSession
<1>2. ASSUME ClientTypeOK, ClientIInv, ClientIInv', [HttpNext]_hvars
      PROVE  ClientTypeOK'
  <2>1. QueuesTypeOK' /\ sid \in {NoSession, Session}
    BY <1>2 DEF ClientIInv, SessionFits
  <2>2. Len(chan') <= ChanCap
    <3>1. chan \in Seq(LineMessage) /\ Len(chan) \in Nat /\ ChanCap \in Nat
      BY <1>2, ChanCapIsPositive DEF ClientTypeOK, QueuesTypeOK
    <3>2. CASE ReadLine
      <4>1. Len(chan) < ChanCap /\ \E m \in LineMessage : chan' = Append(chan, m)
        <5>1. read \in 0..Len(script) /\ read + 1 \in 1..Len(script)
          BY <1>2, <3>2, ScriptsAreLines DEF ReadLine, ClientTypeOK, QueuesTypeOK
        <5>2. Line(read + 1) \in LineMessage
          BY <1>2, <5>1, LinesAreTyped DEF ClientTypeOK
        <5>. QED
          BY <3>2, <5>2 DEF ReadLine
      <4>. QED
        BY <3>1, <4>1
    <3>3. CASE TakeLine
      <4>1. chan # <<>> /\ chan' = Tail(chan)
        BY <3>3 DEF TakeLine
      <4>. QED
        BY <1>2, <3>1, <4>1 DEF ClientTypeOK
    <3>4. CASE ~ReadLine /\ ~TakeLine
      <4>1. chan' = chan
        BY <1>2, <3>4 DEF HttpNext, Post, ServerReplies, Receive, ReceiveError, ConnectionBreaks,
           HandleError, ServerDeletes, BeginDelete, Exit, hvars, taskVars
      <4>. QED
        BY <1>2, <4>1 DEF ClientTypeOK
    <3>. QED
      BY <3>2, <3>3, <3>4
  <2>3. /\ server' \in {"stateless", NoSession, "open", "closed"}
        /\ delete' \in [state : {"unsent", "sent", "answered"}, sid : {NoSession, Session}]
        /\ exit' \in {"running", "exit_0", "exit_1"}
    <3>. USE <1>2, <2>1 DEF ClientTypeOK
    <3>1. CASE ServerReplies
      BY <3>1 DEF ServerReplies
    <3>2. CASE ServerDeletes
      BY <3>2 DEF ServerDeletes
    <3>3. CASE BeginDelete
      BY <3>3 DEF BeginDelete
    <3>4. CASE Exit
      BY <3>4 DEF Exit
    <3>5. CASE ReceiveError \/ ConnectionBreaks
      BY <3>5 DEF ReceiveError, ConnectionBreaks, HandleError
    <3>6. CASE ReadLine \/ TakeLine \/ Post \/ Receive \/ UNCHANGED hvars
      BY <3>6 DEF ReadLine, TakeLine, Post, Receive, hvars
    <3>. QED
      BY <3>1, <3>2, <3>3, <3>4, <3>5, <3>6 DEF HttpNext
  <2>. QED
    BY <2>1, <2>2, <2>3 DEF ClientTypeOK
<1>. QED
  BY <1>1, <1>2, ClientInvariant, PTL DEF HttpSpec

\* No line of stdin is lost, repeated or overtaken on its way through the
\* channel, the queue and the follow-ups.
THEOREM LinesKeepOrder == HttpSpec => []LinesInOrder
  BY ClientInvariant, PTL DEF ClientIInv

\* A response on stdout is to a line that asks for one, and the responses come
\* in the order of the lines: the gateway's own initialize shows none.
THEOREM AnswersReachLines == HttpSpec => []AnswersAreForLines
  BY ClientInvariant, AnswersFollow, PTL

\* Nothing goes out between the initialize and its answer.
THEOREM HandshakeGoesFirst == HttpSpec => []HandshakeFirst
<1>1. ClientIInv => HandshakeFirst
  <2>. SUFFICES ASSUME ClientIInv PROVE HandshakeFirst
    OBVIOUS
  <2>1. posted \in Seq(Sendable) /\ outbox \in Seq(Sendable) /\ Len(posted) \in Nat
    BY DEF ClientIInv, QueuesTypeOK
  <2>2. CASE phase = Pending
    <3>1. posted = <<>> /\ Len(posted) = 0
      BY <2>2 DEF ClientIInv, PhaseFits, Pending, Ready, Waiting
    <3>. QED
      BY <3>1 DEF HandshakeFirst
  <2>3. CASE phase.kind = "waiting"
    <3>1. PICK i : i.type = "initialize" /\ (posted = <<>> \/ posted = <<i>>)
      BY <2>3 DEF ClientIInv, PhaseFits, Pending, Ready, Waiting
    <3>2. Len(posted) <= 1 /\ (posted # <<>> => posted[1] = i)
      <4>1. CASE posted = <<>>
        BY <4>1
      <4>2. CASE posted = <<i>>
        BY <4>2
      <4>. QED
        BY <3>1, <4>1, <4>2
    <3>. QED
      BY <2>1, <3>1, <3>2 DEF HandshakeFirst
  <2>4. CASE phase = Ready
    <3>1. /\ posted # <<>> /\ posted[1].type = "initialize" /\ ResponseTo(posted[1]) \in got
          /\ Len(posted \o outbox) > 1 =>
               (posted[1] = SyntheticInit <=> (posted \o outbox)[2] = Initialized)
      BY <2>4 DEF ClientIInv, PhaseFits, Pending, Ready, Waiting
    <3>2. Len(posted) > 1 => Len(posted \o outbox) > 1 /\ (posted \o outbox)[2] = posted[2]
      BY <2>1
    <3>. QED
      BY <3>1, <3>2 DEF HandshakeFirst
  <2>. QED
    BY <2>2, <2>3, <2>4 DEF ClientIInv, PhaseFits
<1>. QED
  BY <1>1, ClientInvariant, PTL

\* A step that POSTs or begins the DELETE takes the id the client holds.
THEOREM SessionStaysNamed == HttpSpec => SessionIsNamed
<1>1. ASSUME ClientIInv, [HttpNext]_hvars
      PROVE  [/\ server # "stateless" /\ posted # <<>> /\ ResponseTo(posted[1]) \in got
              => /\ posted' # posted => wire'.sid = Session
                 /\ delete = NotSent /\ delete' # delete => delete'.sid = Session]_hvars
  <2>1. SUFFICES ASSUME server # "stateless", got # {}
                 PROVE  /\ posted' # posted => wire'.sid = Session
                        /\ delete = NotSent /\ delete' # delete => delete'.sid = Session
    OBVIOUS
  <2>2. sid = Session
    BY <1>1, <2>1 DEF ClientIInv, SessionFits
  <2>3. CASE Post
    BY <2>2, <2>3 DEF Post, Sent
  <2>4. CASE BeginDelete
    BY <2>2, <2>4 DEF BeginDelete, taskVars
  <2>5. CASE ServerDeletes
    BY <2>5 DEF ServerDeletes, taskVars, NotSent
  <2>6. CASE ~Post /\ ~BeginDelete /\ ~ServerDeletes
    <3>1. UNCHANGED <<posted, delete>>
      BY <1>1, <2>6 DEF HttpNext, ReadLine, TakeLine, ServerReplies, Receive, ReceiveError,
         ConnectionBreaks, HandleError, Exit, hvars, taskVars
    <3>. QED
      BY <3>1
  <2>. QED
    BY <2>3, <2>4, <2>5, <2>6
<1>. QED
  BY <1>1, ClientInvariant, PTL DEF HttpSpec, SessionIsNamed

-----------------------------------------------------------------------------
(* The parser of an event stream, for any text and any chunks.             *)

\* A set of numbers that has 0 and, with a number, the next has all of them.
LEMMA SetInduction ==
  ASSUME NEW T, 0 \in T, \A n \in Nat : n \in T => n + 1 \in T
  PROVE  \A n \in Nat : n \in T
<1>1. DEFINE U == {n \in Nat : n \notin T}
<1>2. SUFFICES ASSUME U # {} PROVE FALSE
  OBVIOUS
<1>3. U \subseteq Nat
  OBVIOUS
<1>4. PICK x \in U : \A y \in U : <<y, x>> \notin OpToRel(<, Nat)
  BY <1>2, <1>3, NatLessThanWellFounded, WFMin
<1>5. x \in Nat /\ x \notin T /\ x # 0
  OBVIOUS
<1>6. x - 1 \in Nat /\ x - 1 < x /\ (x - 1) + 1 = x
  BY <1>5
<1>7. x - 1 \notin U
  BY <1>4, <1>5, <1>6 DEF OpToRel
<1>. QED
  BY <1>5, <1>6, <1>7

LEMMA JoinExists ==
  ASSUME NEW S, NEW ss, NEW m \in Nat, \A i \in 1..m : ss[i] \in Seq(S)
  PROVE  \E g \in [1..m -> Seq(S)] : Joins(g, ss, m)
<1>1. DEFINE T == {n \in Nat : n <= m => \E g \in [1..n -> Seq(S)] : Joins(g, ss, n)}
<1>2. 0 \in T
  <2>1. PICK g : g = [i \in 1..0 |-> <<>>]
    OBVIOUS
  <2>2. g \in [1..0 -> Seq(S)] /\ Joins(g, ss, 0)
    BY <2>1 DEF Joins
  <2>. QED
    BY <2>2
<1>3. ASSUME NEW n \in Nat, n \in T PROVE n + 1 \in T
  <2>1. SUFFICES ASSUME n + 1 <= m PROVE \E g \in [1..(n + 1) -> Seq(S)] : Joins(g, ss, n + 1)
    OBVIOUS
  <2>2. PICK f \in [1..n -> Seq(S)] : Joins(f, ss, n)
    BY <1>3, <2>1
  <2>3. PICK g : g = [i \in 1..(n + 1) |-> IF i = 1 THEN ss[i] ELSE f[i - 1] \o ss[i]]
    OBVIOUS
  <2>4. \A i \in 1..n : f[i] = IF i = 1 THEN ss[i] ELSE f[i - 1] \o ss[i]
    BY <2>2, Zenon DEF Joins
  <2>5. \A i \in 1..n : i \in 1..(n + 1)
    OBVIOUS
  <2>6. \A i \in 1..(n + 1) : g[i] = IF i = 1 THEN ss[i] ELSE f[i - 1] \o ss[i]
    BY <2>3, Zenon
  <2>7. \A i \in 1..n : g[i] = f[i]
    BY <2>4, <2>5, <2>6, Zenon
  <2>8. \A i \in 1..(n + 1) : i # 1 => i - 1 \in 1..n
    OBVIOUS
  <2>9. Joins(g, ss, n + 1)
    BY <2>3, <2>7, <2>8 DEF Joins
  <2>10. ASSUME NEW i \in 1..(n + 1) PROVE g[i] \in Seq(S)
    <3>1. ss[i] \in Seq(S)
      BY <2>1
    <3>2. CASE i = 1
      BY <2>6, <3>1, <3>2
    <3>3. CASE i # 1
      <4>1. f[i - 1] \in Seq(S) /\ g[i] = f[i - 1] \o ss[i]
        BY <2>2, <2>6, <2>8, <3>3
      <4>. QED
        BY <3>1, <4>1
    <3>. QED
      BY <3>2, <3>3
  <2>. QED
    BY <2>3, <2>9, <2>10
<1>. HIDE DEF T
<1>4. m \in T
  BY <1>2, <1>3, SetInduction
<1>. QED
  BY <1>4 DEF T

LEMMA FlattenTyped ==
  ASSUME NEW S, NEW ss \in Seq(Seq(S))
  PROVE  /\ FlattenSeq(ss) \in Seq(S)
         /\ ss = <<>> => FlattenSeq(ss) = <<>>
         /\ ss # <<>> => \E g \in [1..Len(ss) -> Seq(S)] :
                           Joins(g, ss, Len(ss)) /\ FlattenSeq(ss) = g[Len(ss)]
<1>1. CASE ss = <<>>
  <2>1. Len(ss) = 0
    BY <1>1
  <2>2. FlattenSeq(ss) = <<>>
    BY <1>1, <2>1 DEF FlattenSeq
  <2>3. <<>> \in Seq(S)
    OBVIOUS
  <2>4. FlattenSeq(ss) \in Seq(S)
    BY <2>2, <2>3, Zenon
  <2>. QED
    BY <1>1, <2>2, <2>4, Zenon
<1>2. CASE ss # <<>>
  <2>1. PICK n \in Nat \ {0} : n = Len(ss)
    BY <1>2
  <2>2. \A i \in 1..n : ss[i] \in Seq(S)
    BY <2>1
  <2>3. PICK g \in [1..n -> Seq(S)] : Joins(g, ss, n)
    BY <2>2, JoinExists
  <2>4. FlattenSeq(ss) = g[n]
    BY <2>1, <2>3, FlattenIs
  <2>5. g[n] \in Seq(S)
    BY <2>1
  <2>. QED
    BY <1>2, <2>1, <2>3, <2>4, <2>5
<1>. QED
  BY <1>1, <1>2

LEMMA OnlyEmpty == \A S : \A s \in Seq(S) : Len(s) = 0 <=> s = <<>>
  OBVIOUS

Grouped(S, s, t, u, tu, st) ==
  {s, t, u} \subseteq Seq(S) /\ tu = t \o u /\ st = s \o t

Same(s, u, tu, st) == s \o tu = st \o u

LEMMA Regrouped ==
  ASSUME NEW S, NEW s, NEW t, NEW u, NEW tu, NEW st, Grouped(S, s, t, u, tu, st)
  PROVE  Same(s, u, tu, st)
<1>1. s \in Seq(S) /\ t \in Seq(S) /\ u \in Seq(S)
  BY DEF Grouped
<1>2. s \o (t \o u) = (s \o t) \o u
  BY <1>1
<1>. QED
  BY <1>2, Zenon DEF Grouped, Same

\* A sequence in two parts is flattened part by part.
LEMMA FlattenConcat ==
  ASSUME NEW S, NEW ss \in Seq(Seq(S)), NEW tt \in Seq(Seq(S))
  PROVE  FlattenSeq(ss \o tt) = FlattenSeq(ss) \o FlattenSeq(tt)
<1>1. PICK a \in Seq(S), b \in Seq(S) : a = FlattenSeq(ss) /\ b = FlattenSeq(tt)
  BY FlattenTyped
<1>2. a \o <<>> = a /\ <<>> \o b = b
  OBVIOUS
<1>3. CASE ss = <<>>
  <2>1. <<>> \o tt = tt
    OBVIOUS
  <2>2. a = <<>>
    BY <1>1, <1>3, FlattenTyped, Zenon
  <2>. QED
    BY <1>1, <1>2, <1>3, <2>1, <2>2, Zenon
<1>4. CASE tt = <<>>
  <2>1. ss \o <<>> = ss
    OBVIOUS
  <2>2. b = <<>>
    BY <1>1, <1>4, FlattenTyped, Zenon
  <2>. QED
    BY <1>1, <1>2, <1>4, <2>1, <2>2, Zenon
<1>5. CASE ss # <<>> /\ tt # <<>>
  <2>1. PICK m \in Nat \ {0}, n \in Nat \ {0} : m = Len(ss) /\ n = Len(tt)
    BY <1>5
  <2>2. PICK f \in [1..m -> Seq(S)] : Joins(f, ss, m) /\ a = f[m]
    BY <1>1, <1>5, <2>1, FlattenTyped
  <2>3. PICK g \in [1..n -> Seq(S)] : Joins(g, tt, n) /\ b = g[n]
    BY <1>1, <1>5, <2>1, FlattenTyped
  <2>4. PICK u : u = ss \o tt
    OBVIOUS
  <2>5. Len(u) = m + n /\ (\A i \in 1..m : u[i] = ss[i]) /\ \A i \in 1..n : u[m + i] = tt[i]
    BY <2>1, <2>4
  <2>6. PICK h : h = [i \in 1..(m + n) |-> IF i <= m THEN f[i] ELSE a \o g[i - m]]
    OBVIOUS
  <2>7. /\ \A i \in 1..m : f[i] = IF i = 1 THEN ss[i] ELSE f[i - 1] \o ss[i]
        /\ \A i \in 1..n : g[i] = IF i = 1 THEN tt[i] ELSE g[i - 1] \o tt[i]
    BY <2>2, <2>3, Zenon DEF Joins
  <2>8. ASSUME NEW i \in 1..(m + n) PROVE h[i] = IF i = 1 THEN u[i] ELSE h[i - 1] \o u[i]
    <3>1. CASE i <= m
      <4>1. i \in 1..m /\ (i # 1 => i - 1 \in 1..(m + n) /\ i - 1 <= m)
        BY <3>1
      <4>2. h[i] = f[i] /\ u[i] = ss[i]
        BY <2>5, <2>6, <3>1, <4>1
      <4>3. i # 1 => h[i - 1] = f[i - 1]
        BY <2>6, <4>1
      <4>. QED
        BY <2>7, <4>1, <4>2, <4>3
    <3>2. CASE i = m + 1
      <4>1. m \in 1..(m + n) /\ i # 1 /\ i - 1 = m /\ i - m = 1 /\ 1 \in 1..n /\ ~(i <= m)
        BY <3>2
      <4>2. h[i] = a \o g[1]
        BY <2>6, <4>1
      <4>3. h[i - 1] = a
        BY <2>2, <2>6, <4>1
      <4>4. u[i] = tt[1]
        BY <2>5, <3>2, <4>1
      <4>5. g[1] = tt[1]
        BY <2>7, <4>1
      <4>. QED
        BY <4>1, <4>2, <4>3, <4>4, <4>5
    <3>3. CASE i > m + 1
      <4>1. PICK j \in 1..n : i = m + j /\ i - m = j
        BY <3>3
      <4>2. /\ j # 1 /\ j - 1 \in 1..n /\ i - 1 \in 1..(m + n) /\ ~(i - 1 <= m) /\ ~(i <= m)
            /\ (i - 1) - m = j - 1 /\ i # 1
        BY <3>3, <4>1
      <4>3. h[i] = a \o g[j] /\ h[i - 1] = a \o g[j - 1] /\ u[i] = tt[j] /\ g[j] = g[j - 1] \o tt[j]
        <5>1. h[i] = a \o g[j]
          BY <2>6, <4>1, <4>2
        <5>2. h[i - 1] = a \o g[j - 1]
          BY <2>6, <4>1, <4>2
        <5>3. u[i] = tt[j]
          BY <2>5, <4>1
        <5>4. g[j] = g[j - 1] \o tt[j]
          BY <2>7, <4>1, <4>2
        <5>. QED
          BY <5>1, <5>2, <5>3, <5>4, Zenon
      <4>6. g[j - 1] \in Seq(S)
        BY <2>3, <4>2
      <4>7. tt[j] \in Seq(S)
        BY <2>1
      <4>4. PICK x \in Seq(S), y \in Seq(S) : x = g[j - 1] /\ y = tt[j]
        BY <4>6, <4>7, Zenon
      <4>. QED
        <5>1. Grouped(S, a, x, y, g[j], h[i - 1])
          BY <4>3, <4>4, Zenon DEF Grouped
        <5>2. Same(a, y, g[j], h[i - 1])
          BY <5>1, Regrouped
        <5>. QED
          BY <4>2, <4>3, <4>4, <5>2, Zenon DEF Same
    <3>. QED
      BY <3>1, <3>2, <3>3
  <2>9. Joins(h, u, m + n)
    BY <2>6, <2>8, Zenon DEF Joins
  <2>10. h[m + n] = a \o b
    <3>1. m + n \in 1..(m + n) /\ ~(m + n <= m) /\ (m + n) - m = n
      OBVIOUS
    <3>. QED
      BY <2>3, <2>6, <3>1
  <2>11. FlattenSeq(u) = h[m + n]
    <3>1. PICK k \in Nat \ {0} : k = m + n
      OBVIOUS
    <3>2. Len(u) = k /\ Joins(h, u, k)
      BY <2>5, <2>9, <3>1
    <3>3. FlattenSeq(u) = h[k]
      BY <3>2, FlattenIs
    <3>. QED
      BY <3>1, <3>3
  <2>. QED
    BY <1>1, <2>4, <2>10, <2>11
<1>. QED
  BY <1>3, <1>4, <1>5

\* Sequences of one each.
LEMMA FlattenSingles ==
  ASSUME NEW S, NEW s \in Seq(S), NEW ss, Len(ss) = Len(s), ss \in Seq(Seq(S)),
         \A i \in 1..Len(s) : ss[i] = <<s[i]>>
  PROVE  FlattenSeq(ss) = s
<1>1. PICK n \in Nat : n = Len(s)
  OBVIOUS
<1>2. CASE n = 0
  <2>1. s = <<>>
    BY <1>1, <1>2, OnlyEmpty
  <2>2. ss = <<>>
    BY <1>1, <1>2, OnlyEmpty
  <2>. QED
    BY <2>1, <2>2, FlattenTyped, Zenon
<1>3. CASE n # 0
  <2>1. PICK g : g = [i \in 1..n |-> SubSeq(s, 1, i)]
    OBVIOUS
  <2>2. ASSUME NEW i \in 1..n PROVE g[i] = IF i = 1 THEN ss[i] ELSE g[i - 1] \o ss[i]
    <3>1. g[i] = SubSeq(s, 1, i) /\ ss[i] = <<s[i]>>
      BY <1>1, <2>1
    <3>2. CASE i = 1
      <4>1. PICK x : x = SubSeq(s, 1, 1)
        OBVIOUS
      <4>2. x \in Seq(S) /\ Len(x) = 1 /\ x[1] = s[1]
        BY <1>1, <1>3, <4>1
      <4>3. x = <<s[1]>>
        BY <4>2
      <4>. QED
        BY <3>1, <3>2, <4>1, <4>3
    <3>3. CASE i # 1
      <4>1. i - 1 \in 1..n /\ g[i - 1] = SubSeq(s, 1, i - 1)
        BY <2>1, <3>3
      <4>2. SubSeq(s, 1, i) = SubSeq(s, 1, i - 1) \o <<s[i]>>
        <5>1. PICK x, y : x = SubSeq(s, 1, i) /\ y = SubSeq(s, 1, i - 1)
          OBVIOUS
        <5>2. /\ x \in Seq(S) /\ Len(x) = i /\ \A k \in 1..i : x[k] = s[k]
              /\ y \in Seq(S) /\ Len(y) = i - 1 /\ \A k \in 1..(i - 1) : y[k] = s[k]
          BY <1>1, <4>1, <5>1
        <5>3. PICK z : z = y \o <<s[i]>>
          OBVIOUS
        <5>4. z \in Seq(S) /\ Len(z) = i /\ z[i] = s[i] /\ \A k \in 1..(i - 1) : z[k] = y[k]
          BY <1>1, <5>2, <5>3
        <5>5. \A k \in 1..i : x[k] = z[k]
          BY <5>2, <5>4
        <5>6. x = z
          BY <5>2, <5>4, <5>5
        <5>. QED
          BY <5>1, <5>3, <5>6
      <4>. QED
        BY <3>1, <3>3, <4>1, <4>2
    <3>. QED
      BY <3>2, <3>3
  <2>3. Joins(g, ss, n)
    BY <2>1, <2>2, Zenon DEF Joins
  <2>4. g[n] = s
    <3>1. n \in 1..n
      BY <1>3
    <3>2. SubSeq(s, 1, n) = s
      BY <1>1
    <3>. QED
      BY <2>1, <3>1, <3>2
  <2>. QED
    BY <1>1, <1>3, <2>3, <2>4, FlattenIs
<1>. QED
  BY <1>2, <1>3

\* The two parts of a sequence of sequences.
Parts(S, ss, a, b) ==
  /\ {ss, a, b} \subseteq Seq(Seq(S)) /\ Len(ss) = Len(a) + Len(b)
  /\ \A i \in 1..Len(a) : ss[i] = a[i]
  /\ \A i \in 1..Len(b) : ss[Len(a) + i] = b[i]

LEMMA PartsJoin ==
  ASSUME NEW S, NEW ss, NEW a, NEW b, Parts(S, ss, a, b)
  PROVE  FlattenSeq(ss) = FlattenSeq(a) \o FlattenSeq(b)
<1>1. ss \in Seq(Seq(S)) /\ a \in Seq(Seq(S)) /\ b \in Seq(Seq(S)) /\ Len(ss) = Len(a) + Len(b)
  BY DEF Parts
<1>2. PICK u : u = a \o b
  OBVIOUS
<1>3. PICK m \in Nat, n \in Nat : m = Len(a) /\ n = Len(b)
  BY <1>1
<1>4. /\ u \in Seq(Seq(S)) /\ Len(u) = m + n
      /\ \A i \in 1..m : u[i] = a[i]
      /\ \A i \in 1..n : u[m + i] = b[i]
  <2>1. /\ a \o b \in Seq(Seq(S)) /\ Len(a \o b) = Len(a) + Len(b)
        /\ \A i \in 1..Len(a) : (a \o b)[i] = a[i]
        /\ \A i \in 1..Len(b) : (a \o b)[Len(a) + i] = b[i]
    BY <1>1, Behind
  <2>. QED
    BY <1>2, <1>3, <2>1, Zenon
<1>5. /\ ss \in Seq(Seq(S)) /\ Len(ss) = m + n
      /\ \A i \in 1..m : ss[i] = a[i]
      /\ \A i \in 1..n : ss[m + i] = b[i]
  BY <1>1, <1>3 DEF Parts
<1>6. ASSUME NEW i \in 1..(m + n) PROVE u[i] = ss[i]
  <2>1. CASE i <= m
    BY <1>4, <1>5, <2>1
  <2>2. CASE i > m
    <3>1. PICK k \in 1..n : i = m + k
      <4>1. i - m \in 1..n /\ i = m + (i - m)
        BY <2>2
      <4>. QED
        BY <4>1
    <3>. QED
      BY <1>4, <1>5, <3>1
  <2>. QED
    BY <2>1, <2>2
<1>7. u = ss
  BY <1>4, <1>5, <1>6
<1>. QED
  BY <1>1, <1>2, <1>7, FlattenConcat, Zenon

\* Texts: X ends with a newline, if it is not empty, and Y is X with Z behind.
Closed(X) == Len(X) > 0 => X[Len(X)] = Newline
Behinds(S, X, Z, Y) ==
  /\ {X, Y, Z} \subseteq Seq(S) /\ Len(Y) = Len(X) + Len(Z)
  /\ \A i \in 1..Len(X) : Y[i] = X[i]
  /\ \A i \in 1..Len(Z) : Y[Len(X) + i] = Z[i]

LEMMA BehindIs ==
  ASSUME NEW S, NEW X \in Seq(S), NEW Z \in Seq(S), NEW Y, Y = X \o Z
  PROVE  Behinds(S, X, Z, Y)
  BY DEF Behinds

LEMMA LinesBehind ==
  ASSUME NEW S, NEW X, NEW Z, NEW Y, Behinds(S, X, Z, Y), Closed(X)
  PROVE  /\ \A i \in 1..Len(X) : /\ StartsLine(Y, i) <=> StartsLine(X, i)
                                 /\ BlankLine(Y, i) <=> BlankLine(X, i)
         /\ \A i \in 1..Len(Z) : /\ StartsLine(Y, Len(X) + i) <=> StartsLine(Z, i)
                                 /\ BlankLine(Y, Len(X) + i) <=> BlankLine(Z, i)
<1>1. Len(X) \in Nat /\ Len(Z) \in Nat
  BY DEF Behinds
<1>2. ASSUME NEW i \in 1..Len(X)
      PROVE  (StartsLine(Y, i) <=> StartsLine(X, i)) /\ (BlankLine(Y, i) <=> BlankLine(X, i))
  <2>1. Y[i] = X[i] /\ (i # 1 => i - 1 \in 1..Len(X))
    BY <1>1 DEF Behinds
  <2>2. i # 1 => Y[i - 1] = X[i - 1]
    BY <2>1 DEF Behinds
  <2>. QED
    BY <2>1, <2>2 DEF StartsLine, BlankLine
<1>3. ASSUME NEW i \in 1..Len(Z)
      PROVE  /\ StartsLine(Y, Len(X) + i) <=> StartsLine(Z, i)
             /\ BlankLine(Y, Len(X) + i) <=> BlankLine(Z, i)
  <2>1. Y[Len(X) + i] = Z[i] /\ (i # 1 => i - 1 \in 1..Len(Z)) /\ (Len(X) + i) - 1 = Len(X) + (i - 1)
    BY <1>1 DEF Behinds
  <2>2. i # 1 => Y[(Len(X) + i) - 1] = Z[i - 1]
    <3>1. i # 1 => Y[Len(X) + (i - 1)] = Z[i - 1]
      BY <2>1 DEF Behinds
    <3>. QED
      BY <2>1, <3>1
  <2>3. StartsLine(Y, Len(X) + i) <=> StartsLine(Z, i)
    <3>1. CASE i = 1
      <4>1. StartsLine(Z, i)
        BY <3>1 DEF StartsLine
      <4>2. CASE Len(X) = 0
        BY <3>1, <4>1, <4>2 DEF StartsLine
      <4>3. CASE Len(X) > 0
        <5>1. Len(X) \in 1..Len(X) /\ (Len(X) + i) - 1 = Len(X)
          BY <1>1, <3>1, <4>3
        <5>2. Y[(Len(X) + i) - 1] = Newline
          BY <4>3, <5>1 DEF Behinds, Closed
        <5>. QED
          BY <4>1, <5>2 DEF StartsLine
      <4>. QED
        BY <1>1, <4>2, <4>3
    <3>2. CASE i # 1
      <4>1. Len(X) + i # 1
        BY <1>1, <3>2
      <4>. QED
        BY <2>2, <3>2, <4>1 DEF StartsLine
    <3>. QED
      BY <3>1, <3>2
  <2>. QED
    BY <2>1, <2>3 DEF BlankLine
<1>. QED
  BY <1>2, <1>3

\* The values of a field, line by line.
Vals(S) == {t.value : t \in S}
ValuesAt(block, field) ==
  [i \in 1..Len(block) |->
     IF block[i].field = field /\ StartsLine(block, i) THEN <<block[i].value>> ELSE <<>>]

LEMMA ValuesAre ==
  ASSUME NEW S, NEW block \in Seq(S), NEW field
  PROVE  /\ Values(block, field) = FlattenSeq(ValuesAt(block, field))
         /\ ValuesAt(block, field) \in Seq(Seq(Vals(S)))
         /\ Len(ValuesAt(block, field)) = Len(block)
         /\ \A i \in 1..Len(block) : ValuesAt(block, field)[i] =
              IF block[i].field = field /\ StartsLine(block, i) THEN <<block[i].value>> ELSE <<>>
         /\ Values(block, field) \in Seq(Vals(S))
<1>1. DOMAIN block = 1..Len(block) /\ Len(block) \in Nat
  OBVIOUS
<1>2. Values(block, field) = FlattenSeq(ValuesAt(block, field))
  BY <1>1 DEF Values, ValuesAt
<1>3. ASSUME NEW i \in 1..Len(block)
      PROVE  (IF block[i].field = field /\ StartsLine(block, i) THEN <<block[i].value>> ELSE <<>>)
               \in Seq(Vals(S))
  <2>1. block[i] \in S
    BY <1>1
  <2>2. block[i].value \in Vals(S)
    BY <2>1 DEF Vals
  <2>3. <<block[i].value>> \in Seq(Vals(S)) /\ <<>> \in Seq(Vals(S))
    BY <2>2
  <2>. QED
    BY <2>3
<1>4. PICK v : v = ValuesAt(block, field)
  OBVIOUS
<1>5. v \in [1..Len(block) -> Seq(Vals(S))]
  BY <1>3, <1>4 DEF ValuesAt
<1>6. v \in Seq(Seq(Vals(S))) /\ Len(v) = Len(block)
  BY <1>1, <1>5
<1>7. \A i \in 1..Len(block) : v[i] =
        IF block[i].field = field /\ StartsLine(block, i) THEN <<block[i].value>> ELSE <<>>
  BY <1>4 DEF ValuesAt
<1>8. FlattenSeq(v) \in Seq(Vals(S))
  BY <1>6, FlattenTyped, Zenon
<1>. QED
  BY <1>2, <1>4, <1>6, <1>7, <1>8

LEMMA ValuesBehind ==
  ASSUME NEW S, NEW X, NEW Z, NEW Y, Behinds(S, X, Z, Y), Closed(X), NEW field
  PROVE  Values(Y, field) = Values(X, field) \o Values(Z, field)
<1>1. X \in Seq(S) /\ Z \in Seq(S) /\ Y \in Seq(S) /\ Len(Y) = Len(X) + Len(Z)
  BY DEF Behinds
<1>2. PICK x, z, y : x = ValuesAt(X, field) /\ z = ValuesAt(Z, field) /\ y = ValuesAt(Y, field)
  OBVIOUS
<1>3. /\ {x, y, z} \subseteq Seq(Seq(Vals(S)))
      /\ Len(x) = Len(X) /\ Len(y) = Len(Y) /\ Len(z) = Len(Z)
  BY <1>1, <1>2, ValuesAre
<1>4. ASSUME NEW i \in 1..Len(X) PROVE y[i] = x[i]
  <2>0. i \in 1..Len(Y) /\ Y[i] = X[i]
    BY <1>1 DEF Behinds
  <2>1. i \in 1..Len(Y) /\ Y[i] = X[i] /\ (StartsLine(Y, i) <=> StartsLine(X, i))
    BY <2>0, LinesBehind
  <2>2. y[i] = IF Y[i].field = field /\ StartsLine(Y, i) THEN <<Y[i].value>> ELSE <<>>
    BY <1>1, <1>2, <2>1, ValuesAre
  <2>3. x[i] = IF X[i].field = field /\ StartsLine(X, i) THEN <<X[i].value>> ELSE <<>>
    BY <1>1, <1>2, ValuesAre
  <2>. QED
    BY <2>1, <2>2, <2>3
<1>5. ASSUME NEW i \in 1..Len(Z) PROVE y[Len(X) + i] = z[i]
  <2>1. PICK k \in 1..Len(Y) : k = Len(X) + i
    BY <1>1
  <2>2. Y[k] = Z[i] /\ (StartsLine(Y, k) <=> StartsLine(Z, i))
    <3>1. \A j \in 1..Len(Z) : StartsLine(Y, Len(X) + j) <=> StartsLine(Z, j)
      BY LinesBehind, Zenon
    <3>2. \A j \in 1..Len(Z) : Y[Len(X) + j] = Z[j]
      BY Zenon DEF Behinds
    <3>. QED
      BY <2>1, <3>1, <3>2
  <2>3. y[k] = IF Y[k].field = field /\ StartsLine(Y, k) THEN <<Y[k].value>> ELSE <<>>
    BY <1>1, <1>2, <2>1, ValuesAre, ZenonT(60)
  <2>4. z[i] = IF Z[i].field = field /\ StartsLine(Z, i) THEN <<Z[i].value>> ELSE <<>>
    BY <1>1, <1>2, ValuesAre
  <2>. QED
    BY <2>1, <2>2, <2>3, <2>4
<1>6. Parts(Vals(S), y, x, z)
  BY <1>1, <1>3, <1>4, <1>5 DEF Parts
<1>7. FlattenSeq(y) = FlattenSeq(x) \o FlattenSeq(z)
  BY <1>6, PartsJoin
<1>8. /\ Values(X, field) = FlattenSeq(x) /\ Values(Y, field) = FlattenSeq(y)
      /\ Values(Z, field) = FlattenSeq(z)
  BY <1>1, <1>2, ValuesAre
<1>. QED
  BY <1>7, <1>8, Zenon

\* A whole line that is not blank sets one field.
WholeLine(S, line, Z) ==
  /\ line \in Seq(S) /\ Len(line) > 0 /\ Z \in Seq(S) /\ Len(Z) = Len(line) + 1
  /\ \A i \in 1..Len(line) : Z[i] = line[i] /\ line[i] # Newline
  /\ Z[Len(line) + 1] = Newline

LEMMA OneLine ==
  ASSUME NEW S, NEW line, NEW Z, WholeLine(S, line, Z)
  PROVE  /\ \A i \in 1..Len(Z) : (StartsLine(Z, i) <=> i = 1) /\ ~BlankLine(Z, i)
         /\ Closed(Z)
         /\ \A field : field # "newline" =>
              Values(Z, field) = IF line[1].field = field THEN <<line[1].value>> ELSE <<>>
<1>1. /\ line \in Seq(S) /\ Len(line) \in Nat \ {0} /\ Z \in Seq(S) /\ Len(Z) = Len(line) + 1
      /\ 1 \in 1..Len(line) /\ 1 \in 1..Len(Z)
  BY DEF WholeLine
<1>2. ASSUME NEW i \in 1..Len(Z) PROVE (StartsLine(Z, i) <=> i = 1) /\ ~BlankLine(Z, i)
  <2>1. CASE i = 1
    BY <1>1, <2>1 DEF StartsLine, BlankLine, WholeLine
  <2>2. CASE i # 1
    <3>1. i - 1 \in 1..Len(line)
      BY <1>1, <2>2
    <3>2. Z[i - 1] # Newline
      BY <3>1 DEF WholeLine
    <3>. QED
      BY <2>2, <3>2 DEF StartsLine, BlankLine
  <2>. QED
    BY <2>1, <2>2
<1>3. Closed(Z)
  BY <1>1 DEF Closed, WholeLine
<1>4. ASSUME NEW field, field # "newline"
      PROVE  Values(Z, field) = IF line[1].field = field THEN <<line[1].value>> ELSE <<>>
  <2>1. PICK z : z = ValuesAt(Z, field)
    OBVIOUS
  <2>2. PICK n \in Nat \ {0} : n = Len(Z)
    BY <1>1
  <2>3. Len(z) = n /\ Values(Z, field) = FlattenSeq(z) /\ Z[1] = line[1]
    BY <1>1, <2>1, <2>2, ValuesAre DEF WholeLine
  <2>4. ASSUME NEW i \in 1..n PROVE z[i] = IF i = 1 /\ line[1].field = field THEN <<line[1].value>> ELSE <<>>
    <3>1. z[i] = IF Z[i].field = field /\ StartsLine(Z, i) THEN <<Z[i].value>> ELSE <<>>
      BY <1>1, <2>1, <2>2, ValuesAre
    <3>2. StartsLine(Z, i) <=> i = 1
      BY <1>2, <2>2
    <3>. QED
      BY <2>3, <3>1, <3>2
  <2>5. 1 \in 1..n
    OBVIOUS
  <2>6. CASE line[1].field = field
    <3>1. z[1] = <<line[1].value>> /\ \A i \in 1..n : i # 1 => z[i] = <<>>
      BY <2>4, <2>5, <2>6
    <3>2. FlattenSeq(z) = <<line[1].value>>
      BY <2>3, <2>5, <3>1, FlattenOne
    <3>. QED
      BY <2>3, <2>6, <3>2
  <2>7. CASE line[1].field # field
    <3>1. \A i \in 1..n : z[i] = <<>>
      BY <2>4, <2>7
    <3>2. FlattenSeq(z) = <<>>
      BY <2>3, <3>1, FlattenNone
    <3>. QED
      BY <2>3, <2>7, <3>2
  <2>. QED
    BY <2>6, <2>7
<1>. QED
  BY <1>2, <1>3, <1>4

\* Where the block before a place begins.
Begin(t, i, b) ==
  /\ b \in 0..(i - 1) /\ (b > 0 => BlankLine(t, b))
  /\ \A j \in (b + 1)..(i - 1) : ~BlankLine(t, j)

LEMMA BeginExists ==
  ASSUME NEW t, NEW n \in Nat
  PROVE  \E b \in 0..n : Begin(t, n + 1, b)
<1>1. DEFINE T == {k \in Nat : \E b \in 0..k : Begin(t, k + 1, b)}
<1>2. 0 \in T
  <2>1. 0 \in 0..0 /\ Begin(t, 0 + 1, 0)
    BY DEF Begin
  <2>. QED
    BY <2>1
<1>3. ASSUME NEW k \in Nat, k \in T PROVE k + 1 \in T
  <2>1. PICK b \in 0..k : Begin(t, k + 1, b)
    BY <1>3
  <2>2. (k + 1) - 1 = k /\ ((k + 1) + 1) - 1 = k + 1
    OBVIOUS
  <2>3. CASE BlankLine(t, k + 1)
    <3>1. k + 1 \in 0..(k + 1) /\ Begin(t, (k + 1) + 1, k + 1)
      BY <2>2, <2>3 DEF Begin
    <3>. QED
      BY <3>1
  <2>4. CASE ~BlankLine(t, k + 1)
    <3>1. \A j \in (b + 1)..(k + 1) : j \in (b + 1)..k \/ j = k + 1
      OBVIOUS
    <3>2. b \in 0..(k + 1) /\ Begin(t, (k + 1) + 1, b)
      BY <2>1, <2>2, <2>4, <3>1 DEF Begin
    <3>. QED
      BY <3>2
  <2>. QED
    BY <2>3, <2>4
<1>. HIDE DEF T
<1>4. n \in T
  BY <1>2, <1>3, SetInduction
<1>. QED
  BY <1>4 DEF T

LEMMA BlockFrom ==
  ASSUME NEW t, NEW i \in Nat, NEW b, Begin(t, i, b)
  PROVE  BlockBefore(t, i) = SubSeq(t, b + 1, i - 1)
<1>1. b \in 0..(i - 1)
  BY DEF Begin
<1>. QED
  BY <1>1, BlockIs DEF Begin

LEMMA BlockTyped ==
  ASSUME NEW S, NEW t \in Seq(S), NEW i \in 1..(Len(t) + 1)
  PROVE  BlockBefore(t, i) \in Seq(S)
<1>1. PICK k \in Nat : k = i - 1 /\ k + 1 = i
  OBVIOUS
<1>2. PICK b \in 0..k : Begin(t, i, b)
  BY <1>1, BeginExists
<1>3. BlockBefore(t, i) = SubSeq(t, b + 1, i - 1)
  BY <1>2, BlockFrom
<1>4. SubSeq(t, b + 1, i - 1) \in Seq(S)
  BY <1>1, <1>2
<1>. QED
  BY <1>3, <1>4

\* What comes behind changes no block.
LEMMA BlockKept ==
  ASSUME NEW S, NEW X, NEW Z, NEW Y, Behinds(S, X, Z, Y), Closed(X), NEW i \in 1..(Len(X) + 1)
  PROVE  BlockBefore(Y, i) = BlockBefore(X, i)
<1>1. X \in Seq(S) /\ Y \in Seq(S) /\ Len(X) \in Nat /\ Len(Y) >= Len(X)
  BY DEF Behinds
<1>2. PICK k \in Nat : k = i - 1 /\ k + 1 = i /\ k <= Len(X)
  BY <1>1
<1>3. PICK b \in 0..k : Begin(X, i, b)
  BY <1>2, BeginExists
<1>4. \A j \in 1..k : BlankLine(Y, j) <=> BlankLine(X, j)
  <2>1. \A j \in 1..k : j \in 1..Len(X)
    BY <1>1, <1>2
  <2>. QED
    BY <2>1, LinesBehind
<1>5. Begin(Y, i, b)
  <2>1. \A j \in (b + 1)..(i - 1) : j \in 1..k
    BY <1>2, <1>3
  <2>2. b > 0 => b \in 1..k
    BY <1>3
  <2>. QED
    BY <1>3, <1>4, <2>1, <2>2 DEF Begin
<1>6. BlockBefore(X, i) = SubSeq(X, b + 1, k) /\ BlockBefore(Y, i) = SubSeq(Y, b + 1, k)
  <2>1. i \in Nat
    BY <1>2
  <2>2. BlockBefore(X, i) = SubSeq(X, b + 1, i - 1)
    BY <1>3, <2>1, BlockFrom
  <2>3. BlockBefore(Y, i) = SubSeq(Y, b + 1, i - 1)
    BY <1>5, <2>1, BlockFrom
  <2>. QED
    BY <1>2, <2>2, <2>3
<1>7. SubSeq(X, b + 1, k) = SubSeq(Y, b + 1, k)
  <2>1. PICK x, y : x = SubSeq(X, b + 1, k) /\ y = SubSeq(Y, b + 1, k)
    OBVIOUS
  <2>2. /\ x \in Seq(S) /\ Len(x) = k - b /\ \A j \in 1..(k - b) : x[j] = X[b + j]
        /\ y \in Seq(S) /\ Len(y) = k - b /\ \A j \in 1..(k - b) : y[j] = Y[b + j]
    BY <1>1, <1>2, <2>1
  <2>3. \A j \in 1..(k - b) : b + j \in 1..Len(X)
    BY <1>1, <1>2
  <2>4. \A j \in 1..(k - b) : x[j] = y[j]
    BY <2>2, <2>3 DEF Behinds
  <2>5. x = y
    BY <2>2, <2>4
  <2>. QED
    BY <2>1, <2>5
<1>. QED
  BY <1>6, <1>7

\* The lines since the last blank one.
Rest(t) == BlockBefore(t, Len(t) + 1)

LEMMA RestGrows ==
  ASSUME NEW S, NEW X, NEW Z, NEW Y, Behinds(S, X, Z, Y), Closed(X),
         \A i \in 1..Len(Z) : ~BlankLine(Z, i)
  PROVE  Behinds(S, Rest(X), Z, Rest(Y)) /\ Closed(Rest(X))
<1>1. X \in Seq(S) /\ Y \in Seq(S) /\ Z \in Seq(S)
  BY DEF Behinds
<1>2. PICK m \in Nat, n \in Nat : m = Len(X) /\ n = Len(Z)
  BY <1>1
<1>3. /\ Len(Y) = m + n
      /\ \A i \in 1..m : Y[i] = X[i] /\ (BlankLine(Y, i) <=> BlankLine(X, i))
      /\ \A i \in 1..n : Y[m + i] = Z[i] /\ ~BlankLine(Y, m + i)
  BY <1>2, LinesBehind, SMTT(30) DEF Behinds
<1>4. PICK b \in 0..m : Begin(X, m + 1, b)
  BY BeginExists
<1>5. Begin(Y, (m + n) + 1, b)
  <2>1. b \in 0..(((m + n) + 1) - 1)
    OBVIOUS
  <2>2. b > 0 => BlankLine(Y, b)
    <3>1. b > 0 => b \in 1..m
      OBVIOUS
    <3>. QED
      BY <1>3, <1>4, <3>1 DEF Begin
  <2>3. ASSUME NEW j \in (b + 1)..(((m + n) + 1) - 1) PROVE ~BlankLine(Y, j)
    <3>1. CASE j <= m
      <4>1. j \in 1..m /\ j \in (b + 1)..((m + 1) - 1)
        BY <3>1
      <4>. QED
        BY <1>3, <1>4, <4>1 DEF Begin
    <3>2. CASE j > m
      <4>1. j - m \in 1..n /\ j = m + (j - m)
        BY <3>2
      <4>. QED
        BY <1>3, <4>1
    <3>. QED
      BY <3>1, <3>2
  <2>. QED
    BY <2>1, <2>2, <2>3 DEF Begin
<1>6. Rest(X) = SubSeq(X, b + 1, m) /\ Rest(Y) = SubSeq(Y, b + 1, m + n)
  <2>1. (m + 1) - 1 = m /\ ((m + n) + 1) - 1 = m + n /\ m + 1 \in Nat /\ (m + n) + 1 \in Nat
    OBVIOUS
  <2>2. BlockBefore(X, m + 1) = SubSeq(X, b + 1, m)
    BY <1>4, <2>1, BlockFrom
  <2>3. BlockBefore(Y, (m + n) + 1) = SubSeq(Y, b + 1, m + n)
    BY <1>5, <2>1, BlockFrom
  <2>. QED
    BY <1>2, <1>3, <2>2, <2>3 DEF Rest
<1>7. PICK x, y : x = Rest(X) /\ y = Rest(Y)
  OBVIOUS
<1>8. /\ x \in Seq(S) /\ Len(x) = m - b /\ \A j \in 1..(m - b) : x[j] = X[b + j]
      /\ y \in Seq(S) /\ Len(y) = (m + n) - b /\ \A j \in 1..((m + n) - b) : y[j] = Y[b + j]
  <2>1. PICK l \in Nat : l = m + n /\ l >= m
    OBVIOUS
  <2>2. x \in Seq(S) /\ Len(x) = m - b /\ \A j \in 1..(m - b) : x[j] = X[b + j]
    BY <1>1, <1>2, <1>6, <1>7
  <2>3. y \in Seq(S) /\ Len(y) = l - b /\ \A j \in 1..(l - b) : y[j] = Y[b + j]
    BY <1>1, <1>3, <1>6, <1>7, <2>1
  <2>. QED
    BY <2>1, <2>2, <2>3
<1>9. \A j \in 1..(m - b) : y[j] = x[j]
  <2>1. \A j \in 1..(m - b) : j \in 1..((m + n) - b) /\ b + j \in 1..m
    OBVIOUS
  <2>. QED
    BY <1>3, <1>8, <2>1
<1>10. \A j \in 1..n : y[(m - b) + j] = Z[j]
  <2>1. \A j \in 1..n : (m - b) + j \in 1..((m + n) - b) /\ b + ((m - b) + j) = m + j
    OBVIOUS
  <2>. QED
    BY <1>3, <1>8, <2>1
<1>11. Behinds(S, x, Z, y)
  <2>1. Len(y) = Len(x) + Len(Z)
    <3>1. (m - b) + n = (m + n) - b
      OBVIOUS
    <3>. QED
      BY <1>2, <1>8, <3>1
  <2>2. {x, y, Z} \subseteq Seq(S)
    BY <1>1, <1>8
  <2>. QED
    BY <1>2, <1>8, <1>9, <1>10, <2>1, <2>2 DEF Behinds
<1>12. Closed(x)
  <2>1. SUFFICES ASSUME Len(x) > 0 PROVE x[Len(x)] = Newline
    BY DEF Closed
  <2>2. m - b \in 1..(m - b) /\ b + (m - b) = m /\ m > 0
    BY <1>8, <2>1
  <2>3. x[m - b] = X[m]
    BY <1>8, <2>2
  <2>. QED
    BY <1>2, <1>8, <2>2, <2>3 DEF Closed
<1>. QED
  BY <1>7, <1>11, <1>12

\* The events of a text, blank line by blank line.
Evts(S) == [type : Vals(S) \cup {"message"}, data : Seq(Vals(S))]

LEMMA EventTyped ==
  ASSUME NEW S, NEW block \in Seq(S)
  PROVE  EventOf(block) \in Seq(Evts(S))
<1>1. PICK data \in Seq(Vals(S)) : data = Values(block, "data")
  BY ValuesAre
<1>2. PICK types \in Seq(Vals(S)) : types = Values(block, "event")
  BY ValuesAre
<1>3. TypeIn(block) \in Vals(S) \cup {""}
  <2>1. types # <<>> => Last(types) \in Vals(S)
    BY DEF Last
  <2>. QED
    BY <1>2, <2>1 DEF TypeIn
<1>4. PICK type : type = IF TypeIn(block) = "" THEN "message" ELSE TypeIn(block)
  OBVIOUS
<1>5. type \in Vals(S) \cup {"message"}
  BY <1>3, <1>4
<1>6. PICK e : e = [type |-> type, data |-> data]
  OBVIOUS
<1>7. e \in Evts(S)
  BY <1>5, <1>6 DEF Evts
<1>8. EventOf(block) = IF data = <<>> THEN <<>> ELSE <<e>>
  BY <1>1, <1>4, <1>6 DEF EventOf
<1>. QED
  BY <1>7, <1>8

Evs(t) == Feed(<<>>, t).events
EventsAt(t) == [i \in 1..Len(t) |-> IF BlankLine(t, i) THEN EventOf(BlockBefore(t, i)) ELSE <<>>]

LEMMA EventsAre ==
  ASSUME NEW S, NEW t \in Seq(S)
  PROVE  /\ Evs(t) = FlattenSeq(EventsAt(t))
         /\ EventsAt(t) \in Seq(Seq(Evts(S)))
         /\ Len(EventsAt(t)) = Len(t)
         /\ \A i \in 1..Len(t) : EventsAt(t)[i] =
              IF BlankLine(t, i) THEN EventOf(BlockBefore(t, i)) ELSE <<>>
         /\ Evs(t) \in Seq(Evts(S))
<1>1. Evs(t) = FlattenSeq(EventsAt(t))
  BY FeedIs DEF Evs, EventsAt
<1>2. ASSUME NEW i \in 1..Len(t)
      PROVE  (IF BlankLine(t, i) THEN EventOf(BlockBefore(t, i)) ELSE <<>>) \in Seq(Evts(S))
  <2>1. i \in 1..(Len(t) + 1)
    OBVIOUS
  <2>2. EventOf(BlockBefore(t, i)) \in Seq(Evts(S))
    BY <2>1, BlockTyped, EventTyped
  <2>3. <<>> \in Seq(Evts(S))
    OBVIOUS
  <2>. QED
    BY <2>2, <2>3
<1>3. PICK v : v = EventsAt(t)
  OBVIOUS
<1>4. v \in [1..Len(t) -> Seq(Evts(S))]
  BY <1>2, <1>3 DEF EventsAt
<1>5. v \in Seq(Seq(Evts(S))) /\ Len(v) = Len(t)
  BY <1>4
<1>6. \A i \in 1..Len(t) : v[i] = IF BlankLine(t, i) THEN EventOf(BlockBefore(t, i)) ELSE <<>>
  BY <1>3 DEF EventsAt
<1>7. FlattenSeq(v) \in Seq(Evts(S))
  BY <1>5, FlattenTyped, Zenon
<1>. QED
  BY <1>1, <1>3, <1>5, <1>6, <1>7

\* What comes behind adds its events.
Adds(S, X, Z, Y, z) ==
  /\ Len(z) = Len(Z)
  /\ \A i \in 1..Len(Z) :
       z[i] = IF BlankLine(Z, i) THEN EventOf(BlockBefore(Y, Len(X) + i)) ELSE <<>>

LEMMA EventsBehind ==
  ASSUME NEW S, NEW X, NEW Z, NEW Y, Behinds(S, X, Z, Y), Closed(X)
  PROVE  \E z \in Seq(Seq(Evts(S))) : Adds(S, X, Z, Y, z) /\ Evs(Y) = Evs(X) \o FlattenSeq(z)
<1>1. X \in Seq(S) /\ Z \in Seq(S) /\ Y \in Seq(S) /\ Len(Y) = Len(X) + Len(Z)
  BY DEF Behinds
<1>2. PICK x, y : x = EventsAt(X) /\ y = EventsAt(Y)
  OBVIOUS
<1>3. {x, y} \subseteq Seq(Seq(Evts(S))) /\ Len(x) = Len(X) /\ Len(y) = Len(Y)
  BY <1>1, <1>2, EventsAre
<1>4. PICK m \in Nat, n \in Nat : m = Len(X) /\ n = Len(Z)
  BY <1>1
<1>5. PICK z : z = [i \in 1..n |-> y[m + i]]
  OBVIOUS
<1>6. ASSUME NEW i \in 1..n
      PROVE  /\ y[m + i] \in Seq(Evts(S))
             /\ y[m + i] = IF BlankLine(Z, i) THEN EventOf(BlockBefore(Y, m + i)) ELSE <<>>
  <2>1. PICK k \in 1..Len(y) : k = m + i
    BY <1>1, <1>3, <1>4
  <2>2. y[k] \in Seq(Evts(S))
    BY <1>3
  <2>3. y[k] = IF BlankLine(Y, k) THEN EventOf(BlockBefore(Y, k)) ELSE <<>>
    BY <1>1, <1>2, <1>3, EventsAre
  <2>4. BlankLine(Y, k) <=> BlankLine(Z, i)
    BY <1>4, <2>1, LinesBehind
  <2>. QED
    BY <2>1, <2>2, <2>3, <2>4
<1>7. z \in Seq(Seq(Evts(S))) /\ Len(z) = n /\ \A i \in 1..n : z[i] = y[m + i]
  <2>1. z \in [1..n -> Seq(Evts(S))]
    BY <1>5, <1>6
  <2>2. z \in Seq(Seq(Evts(S))) /\ Len(z) = n
    BY <2>1
  <2>3. \A i \in 1..n : z[i] = y[m + i]
    BY <1>5
  <2>. QED
    BY <2>2, <2>3
<1>8. ASSUME NEW i \in 1..m PROVE y[i] = x[i]
  <2>1. i \in 1..Len(X) /\ i \in 1..Len(Y) /\ i \in 1..(Len(X) + 1)
    BY <1>1, <1>4
  <2>2. y[i] = IF BlankLine(Y, i) THEN EventOf(BlockBefore(Y, i)) ELSE <<>>
    BY <1>1, <1>2, <2>1, EventsAre
  <2>3. x[i] = IF BlankLine(X, i) THEN EventOf(BlockBefore(X, i)) ELSE <<>>
    BY <1>1, <1>2, <2>1, EventsAre
  <2>4. BlankLine(Y, i) <=> BlankLine(X, i)
    BY <2>1, LinesBehind
  <2>5. BlockBefore(Y, i) = BlockBefore(X, i)
    BY <2>1, BlockKept
  <2>. QED
    BY <2>2, <2>3, <2>4, <2>5
<1>9. Parts(Evts(S), y, x, z)
  <2>1. Len(y) = Len(x) + Len(z) /\ {y, x, z} \subseteq Seq(Seq(Evts(S)))
    BY <1>1, <1>3, <1>4, <1>7
  <2>. QED
    BY <1>3, <1>4, <1>7, <1>8, <2>1 DEF Parts
<1>10. FlattenSeq(y) = FlattenSeq(x) \o FlattenSeq(z)
  BY <1>9, PartsJoin
<1>11. Evs(X) = FlattenSeq(x) /\ Evs(Y) = FlattenSeq(y)
  BY <1>1, <1>2, EventsAre
<1>12. Adds(S, X, Z, Y, z)
  BY <1>4, <1>6, <1>7 DEF Adds
<1>. QED
  BY <1>7, <1>10, <1>11, <1>12, Zenon

\* Lines that are not blank add none, and a blank line the one of the block.
LEMMA LinesAddNone ==
  ASSUME NEW S, NEW X, NEW Z, NEW Y, Behinds(S, X, Z, Y), Closed(X),
         \A i \in 1..Len(Z) : ~BlankLine(Z, i)
  PROVE  Evs(Y) = Evs(X)
<1>1. X \in Seq(S) /\ Z \in Seq(S)
  BY DEF Behinds
<1>2. PICK z \in Seq(Seq(Evts(S))) : Adds(S, X, Z, Y, z) /\ Evs(Y) = Evs(X) \o FlattenSeq(z)
  BY EventsBehind, SMTT(30)
<1>3. Len(z) = Len(Z) /\ \A i \in 1..Len(Z) : z[i] = <<>>
  BY <1>2 DEF Adds
<1>4. FlattenSeq(z) = <<>>
  <2>1. CASE Len(z) = 0
    <3>1. z = <<>>
      BY <2>1, OnlyEmpty
    <3>. QED
      BY <3>1, FlattenTyped, Zenon
  <2>2. CASE Len(z) # 0
    <3>1. PICK n \in Nat \ {0} : n = Len(z)
      BY <2>2
    <3>. QED
      BY <1>3, <3>1, FlattenNone
  <2>. QED
    BY <2>1, <2>2
<1>5. PICK x \in Seq(Evts(S)) : x = Evs(X)
  BY <1>1, EventsAre
<1>6. x \o <<>> = x
  OBVIOUS
<1>. QED
  BY <1>2, <1>4, <1>5, <1>6, Zenon

LEMMA BlankAddsOne ==
  ASSUME NEW S, NEW X, NEW Z, NEW Y, Behinds(S, X, Z, Y), Closed(X), Len(Z) = 1, Z[1] = Newline
  PROVE  Evs(Y) = Evs(X) \o EventOf(Rest(X)) /\ Rest(Y) = <<>> /\ Closed(Y)
<1>1. X \in Seq(S) /\ Z \in Seq(S) /\ Y \in Seq(S) /\ Len(Y) = Len(X) + 1
  BY DEF Behinds
<1>2. PICK z \in Seq(Seq(Evts(S))) : Adds(S, X, Z, Y, z) /\ Evs(Y) = Evs(X) \o FlattenSeq(z)
  BY EventsBehind
<1>3. BlankLine(Z, 1)
  BY DEF BlankLine, StartsLine
<1>4. Len(z) = 1 /\ z[1] = EventOf(BlockBefore(Y, Len(X) + 1))
  BY <1>2, <1>3 DEF Adds
<1>5. FlattenSeq(z) = z[1]
  <2>1. PICK g : g = [i \in 1..1 |-> z[1]]
    OBVIOUS
  <2>2. Joins(g, z, 1)
    <3>1. g = [i \in 1..1 |-> IF i = 1 THEN z[i] ELSE g[i - 1] \o z[i]]
      BY <2>1
    <3>. QED
      BY <3>1 DEF Joins
  <2>3. 1 \in Nat \ {0} /\ g[1] = z[1]
    BY <2>1
  <2>. QED
    BY <1>4, <2>2, <2>3, FlattenIs
<1>6. BlockBefore(Y, Len(X) + 1) = Rest(X)
  <2>1. Len(X) + 1 \in 1..(Len(X) + 1)
    BY <1>1
  <2>. QED
    BY <2>1, BlockKept DEF Rest
<1>7. Rest(Y) = <<>>
  <2>1. PICK n \in Nat : n = Len(Y) /\ n > 0
    BY <1>1
  <2>2. BlankLine(Y, n)
    <3>1. 1 \in 1..Len(Z)
      OBVIOUS
    <3>2. BlankLine(Y, Len(X) + 1)
      BY <1>3, <3>1, LinesBehind
    <3>. QED
      BY <1>1, <2>1, <3>2
  <2>3. Begin(Y, n + 1, n)
    BY <2>1, <2>2 DEF Begin
  <2>4. BlockBefore(Y, n + 1) = SubSeq(Y, n + 1, (n + 1) - 1)
    BY <2>3, BlockFrom
  <2>5. SubSeq(Y, n + 1, (n + 1) - 1) = <<>>
    <3>1. PICK y : y = SubSeq(Y, n + 1, (n + 1) - 1)
      OBVIOUS
    <3>2. y \in Seq(S) /\ Len(y) = 0
      BY <1>1, <2>1, <3>1
    <3>. QED
      BY <3>1, <3>2
  <2>. QED
    BY <2>1, <2>4, <2>5 DEF Rest
<1>8. Closed(Y)
  <2>1. 1 \in 1..Len(Z)
    OBVIOUS
  <2>. QED
    BY <1>1, <2>1 DEF Closed, Behinds
<1>. QED
  BY <1>2, <1>4, <1>5, <1>6, <1>7, <1>8, Zenon

\* The text with its line ends as "\n".
KeptAt(t) == [i \in 1..Len(t) |->
  IF t[i] = Return /\ i < Len(t) /\ t[i + 1] = Newline THEN <<>> ELSE <<t[i]>>]

LEMMA NormalIs ==
  ASSUME NEW S, NEW t \in Seq(S)
  PROVE  /\ Normal(t) = FlattenSeq(KeptAt(t))
         /\ KeptAt(t) \in Seq(Seq(S))
         /\ Len(KeptAt(t)) = Len(t)
         /\ \A i \in 1..Len(t) : KeptAt(t)[i] =
              IF t[i] = Return /\ i < Len(t) /\ t[i + 1] = Newline THEN <<>> ELSE <<t[i]>>
         /\ Normal(t) \in Seq(S)
<1>1. DOMAIN t = 1..Len(t) /\ Len(t) \in Nat
  OBVIOUS
<1>2. Normal(t) = FlattenSeq(KeptAt(t))
  BY <1>1, Zenon DEF Normal, KeptAt
<1>3. PICK v : v = KeptAt(t)
  OBVIOUS
<1>4. \A i \in 1..Len(t) : v[i] =
        IF t[i] = Return /\ i < Len(t) /\ t[i + 1] = Newline THEN <<>> ELSE <<t[i]>>
  BY <1>3 DEF KeptAt
<1>5. v \in [1..Len(t) -> Seq(S)]
  <2>1. \A i \in 1..Len(t) : <<t[i]>> \in Seq(S) /\ <<>> \in Seq(S)
    BY <1>1
  <2>2. \A i \in 1..Len(t) : v[i] \in Seq(S)
    BY <1>4, <2>1
  <2>. QED
    BY <1>3, <2>2 DEF KeptAt
<1>6. v \in Seq(Seq(S)) /\ Len(v) = Len(t)
  BY <1>1, <1>5
<1>7. FlattenSeq(v) \in Seq(S)
  BY <1>6, FlattenTyped, Zenon
<1>. QED
  BY <1>2, <1>3, <1>4, <1>6, <1>7, Zenon

\* Not cut between "\r" and "\n".
Uncut(P, Z) == Len(P) > 0 /\ Len(Z) > 0 => P[Len(P)] # Return \/ Z[1] # Newline

LEMMA NormalBehind ==
  ASSUME NEW S, NEW P, NEW Z, NEW T, Behinds(S, P, Z, T), Uncut(P, Z)
  PROVE  Normal(T) = Normal(P) \o Normal(Z)
<1>1. P \in Seq(S) /\ Z \in Seq(S) /\ T \in Seq(S)
  BY DEF Behinds
<1>2. PICK m \in Nat, n \in Nat : m = Len(P) /\ n = Len(Z)
  BY <1>1
<1>3. /\ Len(T) = m + n
      /\ \A i \in 1..m : T[i] = P[i]
      /\ \A i \in 1..n : T[m + i] = Z[i]
  BY <1>2 DEF Behinds
<1>4. PICK p, z, t : p = KeptAt(P) /\ z = KeptAt(Z) /\ t = KeptAt(T)
  OBVIOUS
<1>5. {p, z, t} \subseteq Seq(Seq(S)) /\ Len(p) = m /\ Len(z) = n /\ Len(t) = m + n
  BY <1>1, <1>2, <1>3, <1>4, NormalIs
<1>6. ASSUME NEW i \in 1..m PROVE t[i] = p[i]
  <2>1. i \in 1..(m + n) /\ T[i] = P[i]
    BY <1>3
  <2>2. t[i] = IF T[i] = Return /\ i < m + n /\ T[i + 1] = Newline THEN <<>> ELSE <<T[i]>>
    BY <1>1, <1>3, <1>4, <2>1, NormalIs, ZenonT(60)
  <2>3. p[i] = IF P[i] = Return /\ i < m /\ P[i + 1] = Newline THEN <<>> ELSE <<P[i]>>
    BY <1>1, <1>2, <1>4, NormalIs
  <2>4. (T[i] = Return /\ i < m + n /\ T[i + 1] = Newline) <=> (P[i] = Return /\ i < m /\ P[i + 1] = Newline)
    <3>1. CASE i < m
      <4>1. i + 1 \in 1..m /\ i < m + n
        BY <3>1
      <4>2. T[i + 1] = P[i + 1]
        BY <1>3, <4>1
      <4>. QED
        BY <2>1, <3>1, <4>1, <4>2
    <3>2. CASE ~(i < m)
      <4>1. i = m /\ m > 0
        BY <3>2
      <4>2. CASE n = 0
        BY <4>1, <4>2
      <4>3. CASE n > 0
        <5>1. 1 \in 1..n
          BY <4>3
        <5>2. T[m + 1] = Z[1]
          BY <1>3, <5>1
        <5>3. P[m] # Return \/ Z[1] # Newline
          BY <1>2, <4>1, <4>3 DEF Uncut
        <5>. QED
          BY <2>1, <4>1, <5>2, <5>3
      <4>. QED
        BY <4>2, <4>3
    <3>. QED
      BY <3>1, <3>2
  <2>. QED
    BY <2>1, <2>2, <2>3, <2>4
<1>7. ASSUME NEW i \in 1..n PROVE t[m + i] = z[i]
  <2>1. PICK k \in 1..(m + n) : k = m + i
    OBVIOUS
  <2>2. T[k] = Z[i] /\ (k < m + n <=> i < n)
    BY <1>3, <2>1
  <2>3. t[k] = IF T[k] = Return /\ k < m + n /\ T[k + 1] = Newline THEN <<>> ELSE <<T[k]>>
    <3>1. k \in 1..Len(T)
      BY <1>3
    <3>2. t[k] = IF T[k] = Return /\ k < Len(T) /\ T[k + 1] = Newline THEN <<>> ELSE <<T[k]>>
      BY <1>1, <1>4, <3>1, NormalIs
    <3>. QED
      BY <1>3, <3>2
  <2>4. z[i] = IF Z[i] = Return /\ i < n /\ Z[i + 1] = Newline THEN <<>> ELSE <<Z[i]>>
    BY <1>1, <1>2, <1>4, NormalIs
  <2>5. i < n => T[k + 1] = Z[i + 1]
    <3>1. SUFFICES ASSUME i < n PROVE T[k + 1] = Z[i + 1]
      OBVIOUS
    <3>2. i + 1 \in 1..n /\ m + (i + 1) = k + 1
      BY <2>1, <3>1
    <3>3. T[m + (i + 1)] = Z[i + 1]
      BY <1>3, <3>2
    <3>. QED
      BY <3>2, <3>3
  <2>. QED
    BY <2>1, <2>2, <2>3, <2>4, <2>5
<1>8. Parts(S, t, p, z)
  BY <1>5, <1>6, <1>7 DEF Parts
<1>9. FlattenSeq(t) = FlattenSeq(p) \o FlattenSeq(z)
  BY <1>8, PartsJoin
<1>10. Normal(P) = FlattenSeq(p) /\ Normal(Z) = FlattenSeq(z) /\ Normal(T) = FlattenSeq(t)
  BY <1>1, <1>4, NormalIs
<1>. QED
  BY <1>9, <1>10, Zenon

LEMMA NormalKeeps ==
  ASSUME NEW S, NEW t \in Seq(S),
         \A i \in 1..Len(t) : t[i] = Return => ~(i < Len(t) /\ t[i + 1] = Newline)
  PROVE  Normal(t) = t
<1>1. PICK v : v = KeptAt(t)
  OBVIOUS
<1>2. v \in Seq(Seq(S)) /\ Len(v) = Len(t) /\ Normal(t) = FlattenSeq(v)
  BY <1>1, NormalIs
<1>3. \A i \in 1..Len(t) : v[i] = <<t[i]>>
  BY <1>1, NormalIs
<1>. QED
  BY <1>2, <1>3, FlattenSingles

LEMMA NormalPair ==
  ASSUME NEW S, NEW t \in Seq(S), Len(t) = 2, t[1] = Return, t[2] = Newline
  PROVE  Normal(t) = <<Newline>>
<1>1. PICK v : v = KeptAt(t)
  OBVIOUS
<1>2. Len(v) = 2 /\ Normal(t) = FlattenSeq(v)
  BY <1>1, NormalIs
<1>3. v[1] = <<>> /\ v[2] = <<Newline>>
  <2>1. \A i \in 1..2 : v[i] =
          IF t[i] = Return /\ i < 2 /\ t[i + 1] = Newline THEN <<>> ELSE <<t[i]>>
    BY <1>1, NormalIs
  <2>. QED
    BY <2>1
<1>4. PICK n \in Nat \ {0} : n = 2
  OBVIOUS
<1>5. PICK k \in 1..n : k = 2
  BY <1>4
<1>6. Len(v) = n /\ v[k] = <<Newline>> /\ \A i \in 1..n : i # k => v[i] = <<>>
  BY <1>2, <1>3, <1>4, <1>5
<1>7. FlattenSeq(v) = <<Newline>>
  BY <1>6, FlattenOne, Zenon
<1>. QED
  BY <1>2, <1>7

\* A line of the text is the one that process_line() is called with.
RawLine(S, raw, Z) ==
  /\ raw \in Seq(S) /\ Z \in Seq(S) /\ Len(Z) = Len(raw) + 1
  /\ \A i \in 1..Len(raw) : Z[i] = raw[i] /\ raw[i] # Newline /\ (raw[i] = Return => i = Len(raw))
  /\ Z[Len(raw) + 1] = Newline
Stripped(raw) == IF raw # <<>> /\ Last(raw) = Return THEN Front(raw) ELSE raw

LEMMA NormalLine ==
  ASSUME NEW S, NEW raw, NEW Z, RawLine(S, raw, Z), Newline # Return
  PROVE  /\ Stripped(raw) \in Seq(S) /\ Normal(Z) \in Seq(S)
         /\ Normal(Z) = Stripped(raw) \o <<Newline>>
         /\ \A i \in 1..Len(Stripped(raw)) : Stripped(raw)[i] # Newline
<1>1. raw \in Seq(S) /\ Z \in Seq(S)
  BY DEF RawLine
<1>2. PICK n \in Nat : n = Len(raw)
  BY <1>1
<1>3. /\ Len(Z) = n + 1 /\ Z[n + 1] = Newline
      /\ \A i \in 1..n : Z[i] = raw[i] /\ raw[i] # Newline /\ (raw[i] = Return => i = n)
  BY <1>2 DEF RawLine
<1>4. Normal(Z) \in Seq(S) /\ Newline \in S
  BY <1>1, <1>3, NormalIs
<1>5. CASE raw # <<>> /\ Last(raw) = Return
  <2>1. n > 0 /\ raw[n] = Return
    BY <1>1, <1>2, <1>5 DEF Last
  <2>2. PICK line, w : line = SubSeq(raw, 1, n - 1) /\ w = SubSeq(Z, n, n + 1)
    OBVIOUS
  <2>3. line \in Seq(S) /\ Len(line) = n - 1 /\ \A i \in 1..(n - 1) : line[i] = raw[i]
    BY <1>1, <1>2, <2>1, <2>2
  <2>4. w \in Seq(S) /\ Len(w) = 2 /\ w[1] = Z[n] /\ w[2] = Z[n + 1]
    BY <1>1, <1>3, <2>1, <2>2
  <2>5. Stripped(raw) = line
    BY <1>2, <1>5, <2>2 DEF Stripped, Front
  <2>6. \A i \in 1..(n - 1) : line[i] # Newline /\ line[i] # Return
    BY <1>3, <2>3
  <2>7. Behinds(S, line, w, Z)
    <3>1. \A i \in 1..2 : i = 1 \/ i = 2
      OBVIOUS
    <3>2. (n - 1) + 1 = n /\ (n - 1) + 2 = n + 1
      OBVIOUS
    <3>3. \A i \in 1..2 : Z[(n - 1) + i] = w[i]
      BY <2>4, <3>1, <3>2
    <3>4. \A i \in 1..(n - 1) : Z[i] = line[i]
      BY <1>3, <2>3
    <3>5. Len(Z) = Len(line) + Len(w) /\ {line, Z, w} \subseteq Seq(S)
      BY <1>1, <1>3, <2>3, <2>4
    <3>. QED
      BY <2>3, <2>4, <3>3, <3>4, <3>5 DEF Behinds
  <2>8. w[1] = Return /\ w[2] = Newline
    BY <1>3, <2>1, <2>4
  <2>9. Normal(Z) = Normal(line) \o Normal(w)
    <3>1. Uncut(line, w)
      BY <2>8 DEF Uncut
    <3>. QED
      BY <2>7, <3>1, NormalBehind
  <2>10. Normal(line) = line
    BY <2>3, <2>6, NormalKeeps
  <2>11. Normal(w) = <<Newline>>
    BY <2>4, <2>8, NormalPair
  <2>. QED
    BY <1>4, <2>3, <2>5, <2>6, <2>9, <2>10, <2>11
<1>6. CASE ~(raw # <<>> /\ Last(raw) = Return)
  <2>1. Stripped(raw) = raw
    BY <1>6 DEF Stripped
  <2>2. \A i \in 1..n : raw[i] # Return
    <3>1. SUFFICES ASSUME NEW i \in 1..n, raw[i] = Return PROVE FALSE
      OBVIOUS
    <3>2. i = n /\ raw # <<>>
      BY <1>1, <1>2, <1>3, <3>1
    <3>. QED
      BY <1>2, <1>6, <3>1, <3>2 DEF Last
  <2>3. \A i \in 1..(n + 1) : Z[i] # Return
    <3>1. \A i \in 1..(n + 1) : i \in 1..n \/ i = n + 1
      OBVIOUS
    <3>. QED
      BY <1>3, <2>2, <3>1
  <2>4. Normal(Z) = Z
    BY <1>1, <1>3, <2>3, NormalKeeps
  <2>5. Z = raw \o <<Newline>>
    <3>1. PICK z : z = raw \o <<Newline>>
      OBVIOUS
    <3>2. z \in Seq(S) /\ Len(z) = n + 1 /\ z[n + 1] = Newline /\ \A i \in 1..n : z[i] = raw[i]
      BY <1>1, <1>2, <1>4, <3>1
    <3>3. \A i \in 1..(n + 1) : Z[i] = z[i]
      <4>1. \A i \in 1..(n + 1) : i \in 1..n \/ i = n + 1
        OBVIOUS
      <4>. QED
        BY <1>3, <3>2, <4>1
    <3>4. Z = z
      BY <1>1, <1>3, <3>2, <3>3, SMTT(30)
    <3>. QED
      BY <3>1, <3>4
  <2>. QED
    BY <1>1, <1>2, <1>3, <1>4, <2>1, <2>4, <2>5
<1>. QED
  BY <1>5, <1>6

-----------------------------------------------------------------------------
(* The loop of feed()                                                      *)

LEMMA FirstIs ==
  ASSUME NEW S, NEW line \in Seq(S), NEW token
  PROVE  /\ First(line, token) \in 0..Len(line)
         /\ First(line, token) = 0 => \A i \in 1..Len(line) : line[i] # token
         /\ First(line, token) # 0 =>
              /\ line[First(line, token)] = token
              /\ \A i \in 1..(First(line, token) - 1) : line[i] # token
<1>1. PICK at : at = {i \in DOMAIN line : line[i] = token}
  OBVIOUS
<1>2. at = {i \in 1..Len(line) : line[i] = token} /\ at \subseteq Nat
  BY <1>1
<1>3. CASE at = {}
  <2>1. First(line, token) = 0
    BY <1>1, <1>3 DEF First
  <2>. QED
    BY <1>2, <1>3, <2>1
<1>4. CASE at # {}
  <2>1. PICK x \in at : \A y \in at : <<y, x>> \notin OpToRel(<, Nat)
    BY <1>2, <1>4, NatLessThanWellFounded, WFMin
  <2>2. ASSUME NEW y \in at PROVE x <= y
    <3>1. x \in Nat /\ y \in Nat /\ <<y, x>> \notin OpToRel(<, Nat)
      BY <1>2, <2>1
    <3>2. ~(y < x)
      BY <3>1 DEF OpToRel
    <3>3. x \in Nat /\ y \in Nat
      BY <1>2
    <3>. QED
      BY <3>2, <3>3
  <2>3. Min(at) \in at /\ \A y \in at : Min(at) <= y
    BY <2>2 DEF Min
  <2>4. First(line, token) = Min(at)
    BY <1>1, <1>4 DEF First
  <2>5. PICK m \in 1..Len(line) : m = First(line, token) /\ line[m] = token /\ \A y \in at : m <= y
    BY <1>2, <2>3, <2>4
  <2>6. \A i \in 1..(m - 1) : line[i] # token
    BY <1>2, <2>5
  <2>. QED
    BY <2>5, <2>6
<1>. QED
  BY <1>3, <1>4

LEMMA EndIs ==
  ASSUME NEW S, NEW line \in Seq(S)
  PROVE  /\ LineEnd(line) \in 0..Len(line)
         /\ LineEnd(<<>>) = 0
<1>1. LineEnd(line) \in 0..Len(line)
  <2>1. PICK n, r : n = First(line, Newline) /\ r = First(line, Return)
    OBVIOUS
  <2>2. n \in 0..Len(line) /\ r \in 0..Len(line)
    BY <2>1, FirstIs
  <2>3. LineEnd(line) = IF n # 0 THEN n ELSE IF r < Len(line) THEN r ELSE 0
    BY <2>1, Zenon DEF LineEnd
  <2>. QED
    BY <2>2, <2>3
<1>2. LineEnd(<<>>) = 0
  <2>1. <<>> \in Seq(S) /\ Len(<<>>) = 0
    OBVIOUS
  <2>2. First(<<>>, Newline) \in 0..0 /\ First(<<>>, Return) \in 0..0
    BY <2>1, FirstIs
  <2>3. First(<<>>, Newline) = 0 /\ First(<<>>, Return) = 0
    BY <2>2
  <2>. QED
    BY <2>1, <2>3 DEF LineEnd
<1>. QED
  BY <1>1, <1>2

\* Where "\r" comes only before "\n", a line ends at a newline.
LEMMA EndsAtNewline ==
  ASSUME NEW S, NEW line \in Seq(S), Proper(line), Newline # Return
  PROVE  /\ LineEnd(line) = 0 => \A i \in 1..Len(line) : line[i] # Newline
         /\ LineEnd(line) # 0 =>
              /\ line[LineEnd(line)] = Newline
              /\ \A i \in 1..(LineEnd(line) - 1) : line[i] # Newline
<1>1. PICK n, r : n = First(line, Newline) /\ r = First(line, Return)
  OBVIOUS
<1>2. n \in 0..Len(line) /\ r \in 0..Len(line)
  BY <1>1, FirstIs
<1>3. LineEnd(line) = IF n # 0 THEN n ELSE IF r < Len(line) THEN r ELSE 0
  BY <1>1, Zenon DEF LineEnd
<1>4. CASE n # 0
  <2>1. LineEnd(line) = n /\ line[n] = Newline /\ \A i \in 1..(n - 1) : line[i] # Newline
    BY <1>1, <1>3, <1>4, FirstIs
  <2>. QED
    BY <1>4, <2>1
<1>5. CASE n = 0
  <2>1. \A i \in 1..Len(line) : line[i] # Newline
    BY <1>1, <1>5, FirstIs
  <2>2. LineEnd(line) = 0
    <3>1. SUFFICES ASSUME r < Len(line), r # 0 PROVE FALSE
      BY <1>3, <1>5
    <3>2. line[r] = Return
      BY <1>1, <3>1, FirstIs
    <3>3. r \in 1..(Len(line) - 1) /\ r + 1 \in 1..Len(line)
      BY <1>2, <3>1
    <3>4. line[r + 1] = Newline
      BY <3>2, <3>3 DEF Proper
    <3>. QED
      BY <2>1, <3>3, <3>4
  <2>. QED
    BY <2>1, <2>2
<1>. QED
  BY <1>4, <1>5

LEMMA TailTyped ==
  ASSUME NEW S, NEW s \in Seq(S), NEW end \in 0..Len(s)
  PROVE  SubSeq(s, end + 1, Len(s)) \in Seq(S) /\ SubSeq(s, 1, end - 1) \in Seq(S)
<1>1. SubSeq(s, end + 1, Len(s)) \in Seq(S)
  OBVIOUS
<1>2. SubSeq(s, 1, end - 1) \in Seq(S)
  OBVIOUS
<1>. QED
  BY <1>1, <1>2

\* What the parser and the events it returned are.
Ids == Vals(Tokens) \cup {NoId}
Parsers == [line : Seq(Tokens), type : Vals(Tokens) \cup {""}, data : Seq(Vals(Tokens)),
            id : Ids, last : Ids]
Delivered == [type : Vals(Tokens) \cup {"message"}, data : Seq(Vals(Tokens)), id : Ids]
States == [parser : Parsers, events : Seq(Delivered)]

\* A turn of the loop that takes a line, and one that takes a blank line.
Takes(s, r, end) ==
  /\ r \in States
  /\ r.parser.line = SubSeq(s.parser.line, end + 1, Len(s.parser.line))
TakesField(s, r, line) ==
  /\ r.events = s.events /\ r.parser.last = s.parser.last
  /\ r.parser.type = IF line[1].field = "event" THEN line[1].value ELSE s.parser.type
  /\ r.parser.data = IF line[1].field = "data" THEN Append(s.parser.data, line[1].value)
                                               ELSE s.parser.data
TakesBlank(s, r) ==
  /\ r.parser.type = "" /\ r.parser.data = <<>>
  /\ s.parser.data = <<>> => r.events = s.events /\ r.parser.last = s.parser.last
  /\ s.parser.data # <<>> =>
       /\ r.events = Append(s.events, Dispatched(s.parser))
       /\ r.parser.last = IF s.parser.id = NoId THEN s.parser.last ELSE s.parser.id

RawOf(s) == SubSeq(s.parser.line, 1, LineEnd(s.parser.line) - 1)

LEMMA TurnIs ==
  ASSUME NEW s \in States
  PROVE  /\ LineEnd(s.parser.line) = 0 => NextLine(s) = s
         /\ LineEnd(s.parser.line) # 0 =>
              /\ Takes(s, NextLine(s), LineEnd(s.parser.line))
              /\ Stripped(RawOf(s)) # <<>> => TakesField(s, NextLine(s), Stripped(RawOf(s)))
              /\ Stripped(RawOf(s)) = <<>> => TakesBlank(s, NextLine(s))
<1>1. PICK p \in Parsers : p = s.parser
  BY DEF States
<1>2. /\ p.line \in Seq(Tokens) /\ p.type \in Vals(Tokens) \cup {""} /\ p.data \in Seq(Vals(Tokens))
      /\ p.id \in Ids /\ p.last \in Ids
  BY DEF Parsers
<1>3. s.events \in Seq(Delivered)
  BY DEF States
<1>4. PICK end \in 0..Len(p.line) : end = LineEnd(p.line)
  BY <1>2, EndIs
<1>5. PICK line : line = Stripped(SubSeq(p.line, 1, end - 1))
  OBVIOUS
<1>6. LineBefore(p.line, end) = line
  BY <1>5, Zenon DEF LineBefore, Stripped
<1>7. PICK next : next = [p EXCEPT !.line = SubSeq(@, end + 1, Len(@))]
  OBVIOUS
<1>8. /\ next \in Parsers /\ next.line = SubSeq(p.line, end + 1, Len(p.line))
      /\ next.type = p.type /\ next.data = p.data /\ next.id = p.id /\ next.last = p.last
  <2>1. SubSeq(p.line, end + 1, Len(p.line)) \in Seq(Tokens)
    BY <1>2, TailTyped
  <2>2. PICK l \in Seq(Tokens) : l = SubSeq(p.line, end + 1, Len(p.line))
    BY <2>1
  <2>3. next = [p EXCEPT !.line = l]
    BY <1>7, <2>2
  <2>. QED
    BY <2>2, <2>3 DEF Parsers
<1>9. PICK r : r = NextLine(s)
  OBVIOUS
<1>10. r = IF end = 0 THEN s
           ELSE IF line # <<>> THEN [parser |-> SetField(next, line), events |-> s.events]
           ELSE [parser |-> AfterDispatch(next),
                 events |-> IF p.data = <<>> THEN s.events ELSE Append(s.events, Dispatched(p))]
  BY <1>1, <1>4, <1>6, <1>7, <1>9, Zenon DEF NextLine
<1>11. line \in Seq(Tokens)
  <2>1. PICK raw \in Seq(Tokens) : raw = SubSeq(p.line, 1, end - 1)
    BY <1>2, TailTyped
  <2>2. Front(raw) \in Seq(Tokens)
    BY DEF Front
  <2>. QED
    BY <1>5, <2>1, <2>2 DEF Stripped
<1>12. CASE end = 0
  BY <1>1, <1>4, <1>9, <1>10, <1>12
<1>13. CASE end # 0 /\ line # <<>>
  <2>1. line[1].value \in Vals(Tokens)
    <3>1. line[1] \in Tokens
      BY <1>11, <1>13
    <3>. QED
      BY <3>1 DEF Vals
  <2>2. PICK q : q = SetField(next, line)
    OBVIOUS
  <2>3. PICK f, v : f = line[1].field /\ v = line[1].value
    OBVIOUS
  <2>4. q = CASE f = "event" -> [next EXCEPT !.type = v]
              [] f = "data" -> [next EXCEPT !.data = Append(@, v)]
              [] f = "id" -> [next EXCEPT !.id = v]
              [] OTHER -> next
    BY <2>2, <2>3, Zenon DEF SetField
  <2>5. v \in Vals(Tokens) /\ v \in Ids /\ Append(next.data, v) \in Seq(Vals(Tokens))
    <3>1. v \in Vals(Tokens) /\ v \in Ids
      BY <2>1, <2>3 DEF Ids
    <3>2. PICK d \in Seq(Vals(Tokens)) : d = next.data
      BY <1>2, <1>8
    <3>3. Append(d, v) \in Seq(Vals(Tokens))
      BY <3>1
    <3>. QED
      BY <3>1, <3>2, <3>3
  <2>6. /\ q \in Parsers /\ q.line = next.line /\ q.last = next.last
        /\ q.type = IF f = "event" THEN v ELSE next.type
        /\ q.data = IF f = "data" THEN Append(next.data, v) ELSE next.data
    <3>1. CASE f = "event"
      <4>1. q = [next EXCEPT !.type = v]
        BY <2>4, <3>1
      <4>. QED
        BY <1>8, <2>5, <3>1, <4>1 DEF Parsers
    <3>2. CASE f = "data"
      <4>1. PICK d \in Seq(Vals(Tokens)) : d = Append(next.data, v)
        BY <2>5
      <4>2. q = [next EXCEPT !.data = d]
        BY <2>4, <3>2, <4>1
      <4>. QED
        BY <1>8, <2>5, <3>2, <4>1, <4>2 DEF Parsers
    <3>3. CASE f = "id"
      <4>1. q = [next EXCEPT !.id = v]
        BY <2>4, <3>3
      <4>. QED
        BY <1>8, <2>5, <3>3, <4>1 DEF Parsers
    <3>4. CASE f \notin {"event", "data", "id"}
      <4>1. q = next
        BY <2>4, <3>4
      <4>. QED
        BY <1>8, <3>4, <4>1
    <3>. QED
      BY <3>1, <3>2, <3>3, <3>4
  <2>7. r = [parser |-> q, events |-> s.events]
    BY <1>10, <1>13, <2>2
  <2>8. r \in States /\ r.parser = q /\ r.events = s.events
    BY <1>3, <2>6, <2>7 DEF States
  <2>9. Takes(s, r, end)
    BY <1>1, <1>8, <2>6, <2>8 DEF Takes
  <2>10. TakesField(s, r, line)
    BY <1>1, <1>8, <2>3, <2>6, <2>8 DEF TakesField
  <2>. QED
    BY <1>1, <1>4, <1>5, <1>9, <1>13, <2>9, <2>10 DEF RawOf
<1>14. CASE end # 0 /\ line = <<>>
  <2>1. PICK q : q = AfterDispatch(next)
    OBVIOUS
  <2>2. q = IF next.data = <<>> THEN [next EXCEPT !.type = ""]
            ELSE [next EXCEPT !.type = "", !.data = <<>>, !.id = NoId,
                              !.last = IF next.id = NoId THEN @ ELSE next.id]
    BY <2>1, Zenon DEF AfterDispatch
  <2>3. NoId \in Ids /\ <<>> \in Seq(Vals(Tokens))
    BY DEF Ids
  <2>4. PICK es : es = IF p.data = <<>> THEN s.events ELSE Append(s.events, Dispatched(p))
    OBVIOUS
  <2>5. r = [parser |-> q, events |-> es]
    BY <1>10, <1>14, <2>1, <2>4
  <2>6. CASE p.data = <<>>
    <3>1. q = [next EXCEPT !.type = ""]
      BY <1>8, <2>2, <2>6
    <3>2. /\ q \in Parsers /\ q.line = next.line /\ q.last = next.last
          /\ q.type = "" /\ q.data = <<>>
      BY <1>8, <2>6, <3>1 DEF Parsers
    <3>3. r \in States /\ r.parser = q /\ r.events = s.events
      BY <1>3, <2>4, <2>5, <2>6, <3>2 DEF States
    <3>4. Takes(s, r, end)
      BY <1>1, <1>8, <3>2, <3>3 DEF Takes
    <3>5. TakesBlank(s, r)
      BY <1>1, <1>8, <2>6, <3>2, <3>3 DEF TakesBlank
    <3>. QED
      BY <1>1, <1>4, <1>5, <1>9, <1>14, <3>4, <3>5 DEF RawOf
  <2>7. CASE p.data # <<>>
    <3>1. PICK l \in Ids : l = IF next.id = NoId THEN next.last ELSE next.id
      BY <1>2, <1>8
    <3>2. q = [next EXCEPT !.type = "", !.data = <<>>, !.id = NoId, !.last = l]
      BY <1>8, <2>2, <2>7, <3>1
    <3>3. /\ q \in Parsers /\ q.line = next.line /\ q.last = l
          /\ q.type = "" /\ q.data = <<>>
      BY <1>8, <2>3, <3>2 DEF Parsers
    <3>4. Dispatched(p) \in Delivered
      <4>1. PICK t : t = IF p.type = "" THEN "message" ELSE p.type
        OBVIOUS
      <4>2. t \in Vals(Tokens) \cup {"message"}
        BY <1>2, <4>1
      <4>. QED
        BY <1>2, <4>1, <4>2 DEF Dispatched, Delivered
    <3>5. es = Append(s.events, Dispatched(p)) /\ es \in Seq(Delivered)
      BY <1>3, <2>4, <2>7, <3>4
    <3>6. r \in States /\ r.parser = q /\ r.events = es
      BY <2>5, <3>3, <3>5 DEF States
    <3>7. Takes(s, r, end)
      BY <1>1, <1>8, <3>3, <3>6 DEF Takes
    <3>8. TakesBlank(s, r)
      BY <1>1, <1>8, <2>7, <3>1, <3>3, <3>5, <3>6 DEF TakesBlank
    <3>. QED
      BY <1>1, <1>4, <1>5, <1>9, <1>14, <3>7, <3>8 DEF RawOf
  <2>. QED
    BY <2>6, <2>7
<1>. QED
  BY <1>12, <1>13, <1>14

LEMMA PlainIs ==
  ASSUME NEW es \in Seq(Delivered)
  PROVE  /\ Plain(es) \in Seq(Evts(Tokens)) /\ Len(Plain(es)) = Len(es)
         /\ \A k \in 1..Len(es) : Plain(es)[k] = [type |-> es[k].type, data |-> es[k].data]
<1>1. DOMAIN es = 1..Len(es) /\ Len(es) \in Nat
  OBVIOUS
<1>2. ASSUME NEW k \in 1..Len(es)
      PROVE  [type |-> es[k].type, data |-> es[k].data] \in Evts(Tokens)
  <2>1. es[k] \in Delivered
    BY <1>1
  <2>. QED
    BY <2>1 DEF Delivered, Evts
<1>3. PICK v : v = Plain(es)
  OBVIOUS
<1>4. v = [k \in 1..Len(es) |-> [type |-> es[k].type, data |-> es[k].data]]
  BY <1>1, <1>3 DEF Plain
<1>5. v \in [1..Len(es) -> Evts(Tokens)]
  BY <1>2, <1>4
<1>6. v \in Seq(Evts(Tokens)) /\ Len(v) = Len(es)
  BY <1>1, <1>5
<1>7. \A k \in 1..Len(es) : v[k] = [type |-> es[k].type, data |-> es[k].data]
  BY <1>4
<1>. QED
  BY <1>3, <1>6, <1>7

LEMMA PlainGrows ==
  ASSUME NEW es \in Seq(Delivered), NEW e \in Delivered, NEW f, f = [type |-> e.type, data |-> e.data]
  PROVE  Plain(Append(es, e)) = Plain(es) \o <<f>>
<1>1. PICK n \in Nat : n = Len(es)
  OBVIOUS
<1>2. PICK fs \in Seq(Delivered) : fs = Append(es, e)
  <2>1. Append(es, e) \in Seq(Delivered)
    OBVIOUS
  <2>. QED
    BY <2>1
<1>3. Len(fs) = n + 1 /\ fs[n + 1] = e /\ \A k \in 1..n : fs[k] = es[k]
  BY <1>1, <1>2
<1>4. PICK a \in Seq(Evts(Tokens)) : a = Plain(es)
  BY PlainIs
<1>5. PICK b \in Seq(Evts(Tokens)) : b = Plain(fs)
  BY PlainIs
<1>6. Len(a) = n /\ \A k \in 1..n : a[k] = [type |-> es[k].type, data |-> es[k].data]
  BY <1>1, <1>4, PlainIs
<1>7. Len(b) = n + 1 /\ \A k \in 1..(n + 1) : b[k] = [type |-> fs[k].type, data |-> fs[k].data]
  BY <1>3, <1>5, PlainIs
<1>8. f \in Evts(Tokens)
  BY DEF Delivered, Evts
<1>9. PICK c : c = a \o <<f>>
  OBVIOUS
<1>10. c \in Seq(Evts(Tokens)) /\ Len(c) = n + 1 /\ c[n + 1] = f /\ \A k \in 1..n : c[k] = a[k]
  BY <1>6, <1>8, <1>9
<1>11. ASSUME NEW k \in 1..(n + 1) PROVE b[k] = c[k]
  <2>1. b[k] = [type |-> fs[k].type, data |-> fs[k].data]
    BY <1>7
  <2>2. CASE k = n + 1
    BY <1>3, <1>10, <2>1, <2>2
  <2>3. CASE k # n + 1
    <3>1. k \in 1..n
      BY <2>3
    <3>. QED
      BY <1>3, <1>6, <1>10, <2>1, <3>1
  <2>. QED
    BY <2>2, <2>3
<1>12. b = c
  BY <1>7, <1>10, <1>11
<1>. QED
  BY <1>2, <1>4, <1>5, <1>9, <1>12

\* What the parser knows when it has read the text X.
ParserAt(X, s) ==
  /\ Closed(X)
  /\ Plain(s.events) = Evs(X)
  /\ s.parser.data = Values(Rest(X), "data")
  /\ s.parser.type = TypeIn(Rest(X))

LEMMA NothingYet ==
  \A field : Values(<<>>, field) = <<>> /\ TypeIn(<<>>) = ""
<1>1. ASSUME NEW field PROVE Values(<<>>, field) = <<>>
  <2>1. <<>> \in Seq({Newline}) /\ Len(<<>>) = 0
    OBVIOUS
  <2>2. PICK v : v = ValuesAt(<<>>, field)
    OBVIOUS
  <2>3. v \in Seq(Seq(Vals({Newline}))) /\ Len(v) = 0 /\ Values(<<>>, field) = FlattenSeq(v)
    BY <2>1, <2>2, ValuesAre
  <2>4. v = <<>>
    BY <2>3
  <2>. QED
    BY <2>3, <2>4, FlattenTyped, Zenon
<1>2. TypeIn(<<>>) = ""
  BY <1>1 DEF TypeIn
<1>. QED
  BY <1>1, <1>2

LEMMA RestTyped ==
  ASSUME NEW S, NEW X \in Seq(S)
  PROVE  Rest(X) \in Seq(S)
<1>1. Len(X) + 1 \in 1..(Len(X) + 1)
  OBVIOUS
<1>. QED
  BY <1>1, BlockTyped DEF Rest

LEMMA BlankParses ==
  ASSUME NEW s \in States, NEW r \in States, TakesBlank(s, r), Newline \in Tokens,
         NEW X \in Seq(Tokens), ParserAt(X, s), NEW Y, Y = X \o <<Newline>>
  PROVE  ParserAt(Y, r)
<1>1. PICK Z \in Seq(Tokens) : Z = <<Newline>> /\ Len(Z) = 1 /\ Z[1] = Newline
  <2>1. <<Newline>> \in Seq(Tokens) /\ Len(<<Newline>>) = 1 /\ <<Newline>>[1] = Newline
    OBVIOUS
  <2>. QED
    BY <2>1
<1>2. Behinds(Tokens, X, Z, Y) /\ Closed(X)
  BY <1>1, BehindIs DEF ParserAt
<1>3. Evs(Y) = Evs(X) \o EventOf(Rest(X)) /\ Rest(Y) = <<>> /\ Closed(Y)
  BY <1>1, <1>2, BlankAddsOne
<1>4. r.parser.type = TypeIn(Rest(Y)) /\ r.parser.data = Values(Rest(Y), "data")
  BY <1>3, NothingYet DEF TakesBlank
<1>5. PICK es \in Seq(Delivered) : es = s.events
  BY DEF States
<1>6. PICK xs \in Seq(Evts(Tokens)) : xs = Evs(X) /\ xs = Plain(es)
  BY <1>5, EventsAre DEF ParserAt
<1>7. PICK p \in Parsers : p = s.parser
  BY DEF States
<1>8. p.data = Values(Rest(X), "data") /\ p.type = TypeIn(Rest(X))
  BY <1>7 DEF ParserAt
<1>9. CASE p.data = <<>>
  <2>1. EventOf(Rest(X)) = <<>>
    BY <1>8, <1>9 DEF EventOf
  <2>2. xs \o <<>> = xs
    OBVIOUS
  <2>3. r.events = es
    BY <1>5, <1>7, <1>9 DEF TakesBlank
  <2>4. Plain(r.events) = Evs(Y)
    BY <1>3, <1>6, <2>1, <2>2, <2>3, Zenon
  <2>. QED
    BY <1>3, <1>4, <2>4 DEF ParserAt
<1>10. CASE p.data # <<>>
  <2>1. PICK e : e = Dispatched(p)
    OBVIOUS
  <2>2. PICK f : f = [type |-> e.type, data |-> e.data]
    OBVIOUS
  <2>3. e.type = (IF p.type = "" THEN "message" ELSE p.type) /\ e.data = p.data
    BY <2>1 DEF Dispatched
  <2>4. EventOf(Rest(X)) = <<f>>
    BY <1>8, <1>10, <2>2, <2>3 DEF EventOf
  <2>5. e \in Delivered
    <3>1. PICK t : t = IF p.type = "" THEN "message" ELSE p.type
      OBVIOUS
    <3>2. t \in Vals(Tokens) \cup {"message"} /\ p.data \in Seq(Vals(Tokens)) /\ p.id \in Ids
      BY <3>1 DEF Parsers
    <3>. QED
      BY <2>1, <3>1, <3>2 DEF Dispatched, Delivered
  <2>6. r.events = Append(es, e)
    BY <1>5, <1>7, <1>10, <2>1 DEF TakesBlank
  <2>7. Plain(Append(es, e)) = Plain(es) \o <<f>>
    BY <2>2, <2>5, PlainGrows
  <2>8. Plain(r.events) = Evs(Y)
    BY <1>3, <1>6, <2>4, <2>6, <2>7, Zenon
  <2>. QED
    BY <1>3, <1>4, <2>8 DEF ParserAt
<1>. QED
  BY <1>9, <1>10

LEMMA LineParses ==
  ASSUME NEW s \in States, NEW r \in States, Newline \in Tokens,
         NEW line \in Seq(Tokens), line # <<>>, TakesField(s, r, line),
         \A i \in 1..Len(line) : line[i] # Newline,
         NEW X \in Seq(Tokens), ParserAt(X, s), NEW Y, Y = X \o (line \o <<Newline>>)
  PROVE  ParserAt(Y, r)
<1>1. PICK Z \in Seq(Tokens) : Z = line \o <<Newline>>
  <2>1. line \o <<Newline>> \in Seq(Tokens)
    OBVIOUS
  <2>. QED
    BY <2>1
<1>2. WholeLine(Tokens, line, Z)
  <2>1. PICK n \in Nat : n = Len(line) /\ n > 0
    OBVIOUS
  <2>2. Len(Z) = n + 1 /\ Z[n + 1] = Newline /\ \A i \in 1..n : Z[i] = line[i]
    BY <1>1, <2>1
  <2>. QED
    BY <2>1, <2>2 DEF WholeLine
<1>3. /\ \A i \in 1..Len(Z) : ~BlankLine(Z, i)
      /\ Closed(Z)
      /\ \A field : field # "newline" =>
           Values(Z, field) = IF line[1].field = field THEN <<line[1].value>> ELSE <<>>
  BY <1>2, OneLine
<1>4. Behinds(Tokens, X, Z, Y) /\ Closed(X)
  BY <1>1, BehindIs DEF ParserAt
<1>5. Evs(Y) = Evs(X)
  BY <1>3, <1>4, LinesAddNone
<1>6. PICK x, y : x = Rest(X) /\ y = Rest(Y)
  OBVIOUS
<1>7. Behinds(Tokens, x, Z, y) /\ Closed(x)
  BY <1>3, <1>4, <1>6, RestGrows
<1>8. \A field : Values(y, field) = Values(x, field) \o Values(Z, field)
  BY <1>7, ValuesBehind
<1>9. Closed(Y)
  <2>1. PICK m \in Nat, n \in Nat \ {0} : m = Len(X) /\ n = Len(Z)
    BY <1>2 DEF WholeLine
  <2>2. Len(Y) = m + n /\ Y[m + n] = Z[n]
    BY <1>4, <2>1 DEF Behinds
  <2>. QED
    BY <1>3, <2>1, <2>2 DEF Closed
<1>10. PICK f, v : f = line[1].field /\ v = line[1].value
  OBVIOUS
<1>11. v \in Vals(Tokens)
  <2>1. line[1] \in Tokens
    OBVIOUS
  <2>. QED
    BY <1>10, <2>1 DEF Vals
<1>12. PICK ds \in Seq(Vals(Tokens)) : ds = Values(x, "data")
  BY <1>7, ValuesAre DEF Behinds
<1>13. PICK ts \in Seq(Vals(Tokens)) : ts = Values(x, "event")
  BY <1>7, ValuesAre DEF Behinds
<1>14. /\ Values(y, "data") = ds \o (IF f = "data" THEN <<v>> ELSE <<>>)
       /\ Values(y, "event") = ts \o (IF f = "event" THEN <<v>> ELSE <<>>)
  <2>1. "data" # "newline" /\ "event" # "newline"
    OBVIOUS
  <2>. QED
    BY <1>3, <1>8, <1>10, <1>12, <1>13, <2>1
<1>15. r.parser.data = Values(y, "data")
  <2>1. ds \o <<>> = ds /\ ds \o <<v>> = Append(ds, v)
    BY <1>11
  <2>2. s.parser.data = ds
    BY <1>6, <1>12 DEF ParserAt
  <2>3. r.parser.data = IF f = "data" THEN Append(ds, v) ELSE ds
    BY <1>10, <2>2 DEF TakesField
  <2>. QED
    BY <1>14, <2>1, <2>3
<1>16. r.parser.type = TypeIn(y)
  <2>1. s.parser.type = TypeIn(x)
    BY <1>6 DEF ParserAt
  <2>2. r.parser.type = IF f = "event" THEN v ELSE TypeIn(x)
    BY <1>10, <2>1 DEF TakesField
  <2>3. CASE f = "event"
    <3>1. PICK us : us = ts \o <<v>>
      OBVIOUS
    <3>2. us \in Seq(Vals(Tokens)) /\ us # <<>> /\ Last(us) = v
      BY <1>11, <3>1 DEF Last
    <3>3. Values(y, "event") = us
      BY <1>14, <2>3, <3>1
    <3>. QED
      BY <2>2, <2>3, <3>2, <3>3 DEF TypeIn
  <2>4. CASE f # "event"
    <3>1. ts \o <<>> = ts
      OBVIOUS
    <3>2. Values(y, "event") = Values(x, "event")
      BY <1>13, <1>14, <2>4, <3>1
    <3>. QED
      BY <2>2, <2>4, <3>2 DEF TypeIn
  <2>. QED
    BY <2>3, <2>4
<1>17. Plain(r.events) = Evs(Y)
  BY <1>5 DEF ParserAt, TakesField
<1>. QED
  BY <1>6, <1>9, <1>15, <1>16, <1>17 DEF ParserAt

\* The parser has read the text up to place h, and the rest is in line_buf.
ReadTo(s, T, h) ==
  /\ h \in 0..Len(T) /\ s.parser.line = SubSeq(T, h + 1, Len(T))
  /\ Closed(SubSeq(T, 1, h))
  /\ ParserAt(Normal(SubSeq(T, 1, h)), s)

LEMMA TailIs ==
  ASSUME NEW S, NEW T \in Seq(S), NEW h \in 0..Len(T), NEW L, L = SubSeq(T, h + 1, Len(T))
  PROVE  L \in Seq(S) /\ Len(L) = Len(T) - h /\ \A i \in 1..(Len(T) - h) : L[i] = T[h + i]
  OBVIOUS

LEMMA ProperTail ==
  ASSUME NEW S, NEW T \in Seq(S), Proper(T), NEW h \in 0..Len(T), NEW L, L = SubSeq(T, h + 1, Len(T))
  PROVE  /\ L \in Seq(S) /\ Len(L) = Len(T) - h /\ \A i \in 1..(Len(T) - h) : L[i] = T[h + i]
         /\ Proper(L)
<1>1. L \in Seq(S) /\ Len(L) = Len(T) - h /\ \A i \in 1..(Len(T) - h) : L[i] = T[h + i]
  BY TailIs
<1>2. ASSUME NEW i \in 1..(Len(L) - 1), L[i] = Return PROVE L[i + 1] = Newline
  <2>1. i \in 1..(Len(T) - h) /\ i + 1 \in 1..(Len(T) - h)
    BY <1>1
  <2>2. h + i \in 1..(Len(T) - 1) /\ (h + i) + 1 = h + (i + 1)
    BY <2>1
  <2>3. T[h + i] = Return
    BY <1>1, <1>2, <2>1
  <2>4. T[(h + i) + 1] = Newline
    BY <2>2, <2>3 DEF Proper
  <2>5. L[i + 1] = T[h + (i + 1)]
    BY <1>1, <2>1
  <2>. QED
    BY <2>2, <2>4, <2>5
<1>. QED
  BY <1>1, <1>2 DEF Proper

LEMMA TurnReads ==
  ASSUME NEW s \in States, NEW T \in Seq(Tokens), Proper(T), NEW h, ReadTo(s, T, h),
         LineEnd(s.parser.line) # 0
  PROVE  \E k : ReadTo(NextLine(s), T, k)
<1>1. PICK N \in Nat : N = Len(T)
  OBVIOUS
<1>2. h \in 0..N /\ Newline # Return
  BY <1>1 DEF ReadTo, Newline, Return
<1>3. PICK L : L = s.parser.line
  OBVIOUS
<1>4. L \in Seq(Tokens) /\ Len(L) = N - h /\ (\A i \in 1..(N - h) : L[i] = T[h + i]) /\ Proper(L)
  <2>1. L = SubSeq(T, h + 1, Len(T)) /\ h \in 0..Len(T)
    BY <1>3 DEF ReadTo
  <2>2. /\ L \in Seq(Tokens) /\ Len(L) = Len(T) - h /\ \A i \in 1..(Len(T) - h) : L[i] = T[h + i]
        /\ Proper(L)
    BY <2>1, ProperTail, ZenonT(60)
  <2>. QED
    BY <1>1, <2>2
<1>5. PICK e \in 1..(N - h) : e = LineEnd(L)
  BY <1>3, <1>4, EndIs
<1>6. L[e] = Newline /\ \A i \in 1..(e - 1) : L[i] # Newline
  BY <1>2, <1>4, <1>5, EndsAtNewline
<1>7. PICK P, Q, Z, raw : /\ P = SubSeq(T, 1, h) /\ Q = SubSeq(T, 1, h + e)
                          /\ Z = SubSeq(T, h + 1, h + e) /\ raw = SubSeq(L, 1, e - 1)
  OBVIOUS
<1>8. P \in Seq(Tokens) /\ Len(P) = h /\ \A i \in 1..h : P[i] = T[i]
  BY <1>1, <1>2, <1>7
<1>9. Q \in Seq(Tokens) /\ Len(Q) = h + e /\ \A i \in 1..(h + e) : Q[i] = T[i]
  <2>1. PICK m \in 0..N : m = h + e
    BY <1>2
  <2>2. Q \in Seq(Tokens) /\ Len(Q) = m /\ \A i \in 1..m : Q[i] = T[i]
    BY <1>1, <1>7, <2>1
  <2>. QED
    BY <2>1, <2>2
<1>10. Z \in Seq(Tokens) /\ Len(Z) = e /\ \A i \in 1..e : Z[i] = T[h + i]
  <2>1. PICK m \in 0..N : m = h + e /\ m - h = e
    BY <1>2
  <2>2. Z = SubSeq(T, h + 1, m)
    BY <1>7, <2>1
  <2>3. Z \in Seq(Tokens) /\ Len(Z) = m - h /\ \A i \in 1..(m - h) : Z[i] = T[h + i]
    BY <1>1, <1>2, <2>1, <2>2
  <2>. QED
    BY <2>1, <2>3
<1>11. raw \in Seq(Tokens) /\ Len(raw) = e - 1 /\ \A i \in 1..(e - 1) : raw[i] = L[i]
  BY <1>4, <1>7
<1>12. \A i \in 1..e : Z[i] = L[i]
  <2>1. \A i \in 1..e : i \in 1..(N - h)
    BY <1>2
  <2>. QED
    BY <1>4, <1>10, <2>1
<1>13. RawLine(Tokens, raw, Z)
  <2>1. ASSUME NEW i \in 1..(e - 1) PROVE raw[i] = Return => i = e - 1
    <3>1. SUFFICES ASSUME raw[i] = Return, i # e - 1 PROVE FALSE
      OBVIOUS
    <3>2. i + 1 \in 1..(e - 1) /\ i \in 1..(Len(L) - 1)
      BY <1>4, <3>1
    <3>3. L[i + 1] = Newline
      BY <1>4, <1>11, <3>1, <3>2 DEF Proper
    <3>. QED
      BY <1>6, <3>2, <3>3
  <2>2. \A i \in 1..(e - 1) : i \in 1..e /\ Z[i] = raw[i] /\ raw[i] # Newline
    BY <1>6, <1>11, <1>12
  <2>3. Len(Z) = Len(raw) + 1 /\ Z[Len(raw) + 1] = Newline
    BY <1>6, <1>10, <1>11, <1>12
  <2>. QED
    BY <1>10, <1>11, <2>1, <2>2, <2>3 DEF RawLine
<1>14. PICK line \in Seq(Tokens) : /\ line = Stripped(raw) /\ Normal(Z) = line \o <<Newline>>
                                   /\ \A i \in 1..Len(line) : line[i] # Newline
  BY <1>2, <1>13, NormalLine
<1>15. Behinds(Tokens, P, Z, Q)
  <2>1. ASSUME NEW i \in 1..e PROVE Q[h + i] = Z[i]
    <3>1. h + i \in 1..(h + e)
      BY <1>2
    <3>. QED
      BY <1>9, <1>10, <3>1
  <2>2. \A i \in 1..h : i \in 1..(h + e)
    BY <1>2
  <2>3. \A i \in 1..h : Q[i] = P[i]
    BY <1>8, <1>9, <2>2
  <2>4. {P, Q, Z} \subseteq Seq(Tokens) /\ Len(Q) = Len(P) + Len(Z)
    BY <1>8, <1>9, <1>10
  <2>. QED
    BY <1>8, <1>10, <2>1, <2>3, <2>4 DEF Behinds
<1>16. Uncut(P, Z)
  BY <1>2, <1>7 DEF Uncut, ReadTo, Closed
<1>17. PICK X \in Seq(Tokens) : X = Normal(P)
  BY <1>8, NormalIs
<1>18. PICK Y \in Seq(Tokens) : Y = Normal(Q)
  BY <1>9, NormalIs
<1>19. Y = X \o (line \o <<Newline>>)
  <2>1. Normal(Q) = Normal(P) \o Normal(Z)
    BY <1>15, <1>16, NormalBehind
  <2>. QED
    BY <1>14, <1>17, <1>18, <2>1, Zenon
<1>20. ParserAt(X, s)
  BY <1>7, <1>17 DEF ReadTo
<1>21. Newline \in Tokens
  BY <1>4, <1>5, <1>6
<1>22. PICK r : r = NextLine(s)
  OBVIOUS
<1>23. RawOf(s) = raw
  BY <1>3, <1>5, <1>7 DEF RawOf
<1>24. /\ Takes(s, r, e)
       /\ line # <<>> => TakesField(s, r, line)
       /\ line = <<>> => TakesBlank(s, r)
  BY <1>3, <1>5, <1>14, <1>22, <1>23, TurnIs
<1>25. r \in States /\ r.parser.line = SubSeq(L, e + 1, Len(L))
  BY <1>3, <1>24 DEF Takes
<1>26. ParserAt(Y, r)
  <2>1. CASE line = <<>>
    <3>1. <<>> \o <<Newline>> = <<Newline>>
      OBVIOUS
    <3>2. Y = X \o <<Newline>>
      BY <1>19, <2>1, <3>1
    <3>. QED
      BY <1>20, <1>21, <1>24, <1>25, <2>1, <3>2, BlankParses
  <2>2. CASE line # <<>>
    BY <1>14, <1>19, <1>20, <1>21, <1>24, <1>25, <2>2, LineParses
  <2>. QED
    BY <2>1, <2>2
<1>27. r.parser.line = SubSeq(T, (h + e) + 1, Len(T))
  <2>1. PICK a, b : a = SubSeq(L, e + 1, Len(L)) /\ b = SubSeq(T, (h + e) + 1, N)
    OBVIOUS
  <2>2. PICK n \in Nat : n = (N - h) - e
    BY <1>2
  <2>3. a \in Seq(Tokens) /\ Len(a) = n /\ \A i \in 1..n : a[i] = L[e + i]
    BY <1>4, <2>1, <2>2
  <2>4. PICK m \in 0..N : m = h + e /\ n = N - m
    BY <1>2, <2>2
  <2>5. b = SubSeq(T, m + 1, N)
    BY <2>1, <2>4
  <2>6. b \in Seq(Tokens) /\ Len(b) = n /\ \A i \in 1..n : b[i] = T[m + i]
    <3>1. b \in Seq(Tokens) /\ Len(b) = N - m /\ \A i \in 1..(N - m) : b[i] = T[m + i]
      <4>1. m \in 0..Len(T) /\ b = SubSeq(T, m + 1, Len(T))
        BY <1>1, <2>5
      <4>2. b \in Seq(Tokens) /\ Len(b) = Len(T) - m /\ \A i \in 1..(Len(T) - m) : b[i] = T[m + i]
        BY <4>1, TailIs
      <4>. QED
        BY <1>1, <4>2
    <3>. QED
      BY <2>4, <3>1
  <2>7. ASSUME NEW i \in 1..n PROVE a[i] = b[i]
    <3>1. e + i \in 1..(N - h) /\ h + (e + i) = m + i
      BY <1>2, <2>2, <2>4
    <3>. QED
      BY <1>4, <2>3, <2>6, <3>1
  <2>8. a = b
    BY <2>3, <2>6, <2>7
  <2>. QED
    BY <1>1, <1>25, <2>1, <2>8
<1>28. Closed(Q)
  <2>1. h + e \in 1..(h + e) /\ e \in 1..(N - h)
    BY <1>2
  <2>2. Q[h + e] = Newline
    BY <1>4, <1>6, <1>9, <2>1
  <2>. QED
    BY <1>9, <2>2 DEF Closed
<1>29. ReadTo(r, T, h + e)
  <2>1. h + e \in 0..Len(T)
    BY <1>1, <1>2
  <2>. QED
    BY <1>7, <1>18, <1>26, <1>27, <1>28, <2>1 DEF ReadTo
<1>. QED
  BY <1>22, <1>29

\* Last-Event-ID names an event that was delivered, and the last that had an id.
IdsFit(last, es) ==
  \/ last = NoId /\ \A k \in DOMAIN es : es[k].id = NoId
  \/ \E k \in DOMAIN es :
       es[k].id = last /\ last # NoId /\ \A l \in DOMAIN es : l > k => es[l].id = NoId

LEMMA IdsGrow ==
  ASSUME NEW S, NEW es \in Seq(S), NEW e \in S, NEW last, IdsFit(last, es),
         NEW next, next = IF e.id = NoId THEN last ELSE e.id
  PROVE  IdsFit(next, Append(es, e))
<1>1. PICK n \in Nat : n = Len(es)
  OBVIOUS
<1>2. PICK fs : fs = Append(es, e)
  OBVIOUS
<1>3. DOMAIN fs = 1..(n + 1) /\ DOMAIN es = 1..n /\ fs[n + 1] = e /\ \A k \in 1..n : fs[k] = es[k]
  BY <1>1, <1>2
<1>4. \A k \in 1..(n + 1) : k \in 1..n \/ k = n + 1
  OBVIOUS
<1>5. CASE e.id # NoId
  <2>1. n + 1 \in DOMAIN fs /\ fs[n + 1].id = next /\ next # NoId
    BY <1>3, <1>5
  <2>2. \A l \in DOMAIN fs : ~(l > n + 1)
    BY <1>3
  <2>. QED
    BY <1>2, <2>1, <2>2 DEF IdsFit
<1>6. CASE e.id = NoId
  <2>1. next = last
    BY <1>6
  <2>2. CASE last = NoId /\ \A k \in DOMAIN es : es[k].id = NoId
    <3>1. \A k \in DOMAIN fs : fs[k].id = NoId
      BY <1>3, <1>4, <1>6, <2>2
    <3>. QED
      BY <1>2, <2>1, <2>2, <3>1 DEF IdsFit
  <2>3. CASE \E k \in DOMAIN es :
               es[k].id = last /\ last # NoId /\ \A l \in DOMAIN es : l > k => es[l].id = NoId
    <3>1. PICK k \in 1..n : es[k].id = last /\ last # NoId /\ \A l \in 1..n : l > k => es[l].id = NoId
      BY <1>3, <2>3
    <3>2. k \in DOMAIN fs /\ fs[k].id = last
      BY <1>3, <3>1
    <3>3. \A l \in DOMAIN fs : l > k => fs[l].id = NoId
      BY <1>3, <1>4, <1>6, <3>1
    <3>. QED
      BY <1>2, <2>1, <3>1, <3>2, <3>3 DEF IdsFit
  <2>. QED
    BY <2>2, <2>3 DEF IdsFit
<1>. QED
  BY <1>5, <1>6

LEMMA TurnKeepsIds ==
  ASSUME NEW s \in States, IdsFit(s.parser.last, s.events)
  PROVE  IdsFit(NextLine(s).parser.last, NextLine(s).events)
<1>1. PICK r : r = NextLine(s)
  OBVIOUS
<1>2. CASE r.events = s.events /\ r.parser.last = s.parser.last
  BY <1>1, <1>2
<1>3. CASE s.parser.data # <<>> /\ TakesBlank(s, r)
  <2>1. PICK p \in Parsers : p = s.parser
    BY DEF States
  <2>2. PICK e : e = Dispatched(p)
    OBVIOUS
  <2>3. e.id = p.id
    BY <2>2 DEF Dispatched
  <2>4. r.events = Append(s.events, e) /\ r.parser.last = IF e.id = NoId THEN s.parser.last ELSE e.id
    BY <1>3, <2>1, <2>2, <2>3 DEF TakesBlank
  <2>5. PICK S : s.events \in Seq(S) /\ e \in S
    <3>1. s.events \in Seq(Delivered)
      BY DEF States
    <3>2. s.events \in Seq(Delivered \cup {e})
      BY <3>1
    <3>. QED
      BY <3>2
  <2>6. IdsFit(r.parser.last, Append(s.events, e))
    BY <2>4, <2>5, IdsGrow
  <2>. QED
    BY <1>1, <2>4, <2>6
<1>4. (r.events = s.events /\ r.parser.last = s.parser.last) \/ (s.parser.data # <<>> /\ TakesBlank(s, r))
  <2>1. LineEnd(s.parser.line) = 0 \/ TakesField(s, r, Stripped(RawOf(s))) \/ TakesBlank(s, r)
    BY <1>1, TurnIs
  <2>2. CASE LineEnd(s.parser.line) = 0
    BY <1>1, <2>2, TurnIs
  <2>3. CASE TakesField(s, r, Stripped(RawOf(s)))
    BY <2>3 DEF TakesField
  <2>4. CASE TakesBlank(s, r)
    BY <2>4 DEF TakesBlank
  <2>. QED
    BY <2>1, <2>2, <2>3, <2>4
<1>. QED
  BY <1>2, <1>3, <1>4

\* The function of Drained exists, since a turn is computed from the one before.
Turns(f, s, n) == f = [k \in 0..n |-> IF k = 0 THEN s ELSE NextLine(f[k - 1])]

LEMMA TurnsExist ==
  ASSUME NEW s, NEW n \in Nat
  PROVE  \E f : Turns(f, s, n)
<1>1. DEFINE T == {m \in Nat : \E f : Turns(f, s, m)}
<1>2. 0 \in T
  <2>1. PICK f : f = [k \in 0..0 |-> s]
    OBVIOUS
  <2>2. f = [k \in 0..0 |-> IF k = 0 THEN s ELSE NextLine(f[k - 1])]
    BY <2>1
  <2>3. Turns(f, s, 0)
    BY <2>2 DEF Turns
  <2>. QED
    BY <2>3
<1>3. ASSUME NEW m \in Nat, m \in T PROVE m + 1 \in T
  <2>1. PICK f : Turns(f, s, m)
    BY <1>3
  <2>2. PICK g : g = [k \in 0..(m + 1) |-> IF k = 0 THEN s ELSE NextLine(f[k - 1])]
    OBVIOUS
  <2>3. \A k \in 0..m : f[k] = IF k = 0 THEN s ELSE NextLine(f[k - 1])
    BY <2>1, Zenon DEF Turns
  <2>4. \A k \in 0..(m + 1) : g[k] = IF k = 0 THEN s ELSE NextLine(f[k - 1])
    BY <2>2, Zenon
  <2>5. \A k \in 0..m : k \in 0..(m + 1)
    OBVIOUS
  <2>6. \A k \in 0..m : g[k] = f[k]
    BY <2>3, <2>4, <2>5, Zenon
  <2>7. \A k \in 0..(m + 1) : k # 0 => k - 1 \in 0..m
    OBVIOUS
  <2>8. \A k \in 0..(m + 1) : k # 0 => g[k - 1] = f[k - 1]
    BY <2>6, <2>7, Zenon
  <2>9. g = [k \in 0..(m + 1) |-> IF k = 0 THEN s ELSE NextLine(g[k - 1])]
    <3>1. \A k \in 0..(m + 1) : (IF k = 0 THEN s ELSE NextLine(f[k - 1]))
                                  = (IF k = 0 THEN s ELSE NextLine(g[k - 1]))
      BY <2>8, Zenon
    <3>. QED
      BY <2>2, <3>1, Zenon
  <2>10. Turns(g, s, m + 1)
    BY <2>9, Zenon DEF Turns
  <2>. QED
    BY <2>10
<1>. HIDE DEF T
<1>4. n \in T
  BY <1>2, <1>3, SetInduction
<1>. QED
  BY <1>4 DEF T

\* What every turn keeps, the loop keeps; and it leaves no line behind.
LEMMA LoopKeeps ==
  ASSUME NEW I, I \subseteq States, NEW s \in I, \A x \in I : NextLine(x) \in I
  PROVE  Drained(s) \in I /\ LineEnd(Drained(s).parser.line) = 0
<1>1. \A x \in I : x.parser.line \in Seq(Tokens)
  BY DEF States, Parsers
<1>2. PICK n \in Nat : n = Len(s.parser.line)
  BY <1>1
<1>3. PICK f : Turns(f, s, n) /\ Drained(s) = f[n]
  <2>1. DEFINE g == CHOOSE x : Turns(x, s, Len(s.parser.line))
  <2>2. Turns(g, s, Len(s.parser.line))
    <3>1. \E x : Turns(x, s, Len(s.parser.line))
      BY <1>2, TurnsExist
    <3>. QED
      BY <3>1, Zenon
  <2>3. Drained(s) = g[Len(s.parser.line)]
    BY Zenon DEF Drained, Turns
  <2>. HIDE DEF g
  <2>. QED
    BY <1>2, <2>2, <2>3
<1>4. \A k \in 0..n : f[k] = IF k = 0 THEN s ELSE NextLine(f[k - 1])
  BY <1>3, Zenon DEF Turns
<1>5. DEFINE Done(k) == /\ f[k] \in I
                        /\ LineEnd(f[k].parser.line) = 0 \/ Len(f[k].parser.line) <= n - k
             T == {k \in Nat : k <= n => Done(k)}
<1>6. 0 \in T
  <2>1. f[0] = s
    <3>1. 0 \in 0..n
      OBVIOUS
    <3>. QED
      BY <1>4, <3>1
  <2>. QED
    BY <1>2, <2>1
<1>7. ASSUME NEW k \in Nat, k \in T PROVE k + 1 \in T
  <2>1. SUFFICES ASSUME k + 1 <= n PROVE Done(k + 1)
    OBVIOUS
  <2>2. Done(k)
    BY <1>7, <2>1
  <2>3. PICK x, y : x = f[k] /\ y = f[k + 1]
    OBVIOUS
  <2>4. y = NextLine(x)
    <3>1. k + 1 \in 0..n /\ k + 1 # 0 /\ (k + 1) - 1 = k
      BY <2>1
    <3>. QED
      BY <1>4, <2>3, <3>1
  <2>5. x \in I /\ y \in I /\ (LineEnd(x.parser.line) = 0 \/ Len(x.parser.line) <= n - k)
    BY <2>2, <2>3, <2>4
  <2>6. x \in States
    BY <2>5
  <2>7. LineEnd(y.parser.line) = 0 \/ Len(y.parser.line) <= n - (k + 1)
    <3>1. CASE LineEnd(x.parser.line) = 0
      <4>1. y = x
        BY <2>4, <2>6, <3>1, TurnIs
      <4>. QED
        BY <3>1, <4>1
    <3>2. CASE LineEnd(x.parser.line) # 0
      <4>1. PICK l \in Seq(Tokens) : l = x.parser.line
        BY <1>1, <2>5
      <4>2. PICK e \in 1..Len(l) : e = LineEnd(l)
        BY <3>2, <4>1, EndIs
      <4>3. y.parser.line = SubSeq(l, e + 1, Len(l))
        BY <2>4, <2>6, <3>2, <4>1, <4>2, TurnIs DEF Takes
      <4>4. e \in 0..Len(l)
        OBVIOUS
      <4>5. Len(y.parser.line) = Len(l) - e
        BY <4>3, <4>4, TailIs
      <4>6. Len(l) \in Nat /\ Len(l) <= n - k
        BY <2>5, <3>2, <4>1
      <4>. QED
        BY <4>5, <4>6
    <3>. QED
      BY <3>1, <3>2
  <2>. QED
    BY <2>3, <2>5, <2>7
<1>. HIDE DEF T
<1>8. n \in T
  BY <1>6, <1>7, SetInduction
<1>9. Done(n)
  <2>1. n <= n
    OBVIOUS
  <2>. QED
    BY <1>8, <2>1 DEF T
<1>10. PICK x \in I : x = Drained(s) /\ (LineEnd(x.parser.line) = 0 \/ Len(x.parser.line) <= n - n)
  BY <1>3, <1>9
<1>11. PICK l \in Seq(Tokens) : l = x.parser.line
  BY <1>1
<1>12. LineEnd(l) = 0
  <2>1. CASE Len(l) <= n - n
    <3>1. Len(l) = 0
      BY <2>1
    <3>2. l = <<>>
      BY <3>1, OnlyEmpty
    <3>. QED
      BY <3>2, EndIs
  <2>. QED
    BY <1>10, <1>11, <2>1
<1>. QED
  BY <1>10, <1>11, <1>12

\* The inductive invariant of the parser: everything that was sent is in the
\* events, in the fields of the event being read or in line_buf.
Now == [parser |-> parser, events |-> events]
Reads(s, T) == Proper(T) => \E h : ReadTo(s, T, h)
ParserIInv ==
  /\ sent \in Seq(Tokens)
  /\ Now \in States
  /\ LineEnd(parser.line) = 0
  /\ Reads(Now, sent)
  /\ IdsFit(parser.last, events)

\* No text, no events.
LEMMA EmptyText ==
  ASSUME NEW T \in Seq(Tokens), Len(T) = 0
  PROVE  Normal(T) = T /\ Evs(T) = <<>> /\ Rest(T) = <<>>
<1>1. Normal(T) = T
  <2>1. \A i \in 1..Len(T) : T[i] = Return => ~(i < Len(T) /\ T[i + 1] = Newline)
    OBVIOUS
  <2>. QED
    BY <2>1, NormalKeeps
<1>2. Evs(T) = <<>>
  <2>1. PICK v \in Seq(Seq(Evts(Tokens))) : v = EventsAt(T) /\ Len(v) = 0
    BY EventsAre
  <2>2. v = <<>>
    BY <2>1, OnlyEmpty
  <2>3. Evs(T) = FlattenSeq(v)
    BY <2>1, EventsAre
  <2>. QED
    BY <2>2, <2>3, FlattenTyped, Zenon
<1>3. Rest(T) = <<>>
  <2>1. Begin(T, 1, 0) /\ 1 \in Nat /\ Len(T) + 1 = 1
    BY DEF Begin
  <2>2. BlockBefore(T, 1) = SubSeq(T, 0 + 1, 1 - 1)
    BY <2>1, BlockFrom
  <2>3. PICK t : t = SubSeq(T, 0 + 1, 1 - 1)
    OBVIOUS
  <2>4. t \in Seq(Tokens) /\ Len(t) = 0
    BY <2>3
  <2>5. t = <<>>
    BY <2>4
  <2>. QED
    BY <2>1, <2>2, <2>3, <2>5 DEF Rest
<1>. QED
  BY <1>1, <1>2, <1>3

LEMMA ParserBegins == PInit => ParserIInv
<1>. SUFFICES ASSUME PInit PROVE ParserIInv
  OBVIOUS
<1>1. /\ sent = <<>> /\ events = <<>>
      /\ parser = [line |-> <<>>, type |-> "", data |-> <<>>, id |-> NoId, last |-> NoId]
  BY DEF PInit, NewParser
<1>2. Now.parser = parser /\ Now.events = events
  BY DEF Now
<1>3. PICK T \in Seq(Tokens) : T = <<>> /\ Len(T) = 0
  <2>1. <<>> \in Seq(Tokens) /\ Len(<<>>) = 0
    OBVIOUS
  <2>. QED
    BY <2>1
<1>4. PICK es \in Seq(Delivered) : es = <<>> /\ Len(es) = 0
  <2>1. <<>> \in Seq(Delivered) /\ Len(<<>>) = 0
    OBVIOUS
  <2>. QED
    BY <2>1
<1>5. PICK d \in Seq(Vals(Tokens)) : d = <<>>
  <2>1. <<>> \in Seq(Vals(Tokens))
    OBVIOUS
  <2>. QED
    BY <2>1
<1>6. sent = T /\ events = es /\ parser.line = T /\ parser.data = d /\ parser.type = "" /\ parser.last = NoId
  BY <1>1, <1>3, <1>4, <1>5
<1>7. parser \in Parsers
  <2>1. parser = [line |-> T, type |-> "", data |-> d, id |-> NoId, last |-> NoId]
    BY <1>1, <1>3, <1>5
  <2>2. "" \in Vals(Tokens) \cup {""} /\ NoId \in Ids
    BY DEF Ids
  <2>. QED
    BY <2>1, <2>2 DEF Parsers
<1>8. Now \in States
  BY <1>6, <1>7 DEF Now, States
<1>9. LineEnd(parser.line) = 0
  BY <1>3, <1>6, EndIs
<1>10. IdsFit(parser.last, events)
  <2>1. DOMAIN es = {}
    BY <1>4
  <2>. QED
    BY <1>6, <2>1 DEF IdsFit
<1>11. ParserAt(T, Now)
  <2>1. Plain(es) = <<>>
    <3>1. Plain(es) \in Seq(Evts(Tokens)) /\ Len(Plain(es)) = 0
      BY <1>4, PlainIs
    <3>. QED
      BY <3>1, OnlyEmpty
  <2>2. Closed(T)
    BY <1>3 DEF Closed
  <2>3. Plain(Now.events) = Evs(T)
    BY <1>2, <1>3, <1>6, <2>1, EmptyText
  <2>4. Rest(T) = <<>>
    BY <1>3, EmptyText
  <2>. QED
    BY <1>2, <1>5, <1>6, <2>2, <2>3, <2>4, NothingYet DEF ParserAt
<1>12. ReadTo(Now, T, 0)
  <2>1. SubSeq(T, 1, 0) = T /\ SubSeq(T, 0 + 1, Len(T)) = T
    BY <1>3
  <2>2. Normal(SubSeq(T, 1, 0)) = T
    BY <1>3, <2>1, EmptyText
  <2>3. Closed(SubSeq(T, 1, 0))
    BY <1>3, <2>1 DEF Closed
  <2>4. 0 \in 0..Len(T)
    BY <1>3
  <2>. QED
    BY <1>2, <1>6, <1>11, <2>1, <2>2, <2>3, <2>4 DEF ReadTo
<1>. QED
  BY <1>6, <1>8, <1>9, <1>10, <1>12 DEF ParserIInv, Reads

LEMMA ChunkStep ==
  ASSUME ParserIInv, NEW chunk \in Seq(Tokens), FeedChunk(chunk)
  PROVE  ParserIInv'
<1>1. PICK T \in Seq(Tokens) : T = sent \o chunk
  <2>1. sent \in Seq(Tokens)
    BY DEF ParserIInv
  <2>2. sent \o chunk \in Seq(Tokens)
    BY <2>1
  <2>. QED
    BY <2>2
<1>2. DEFINE I == {x \in States : Reads(x, T) /\ IdsFit(x.parser.last, x.events)}
<1>3. PICK p \in Parsers : p = parser
  BY DEF ParserIInv, Now, States
<1>4. PICK q : q = [p EXCEPT !.line = @ \o chunk]
  OBVIOUS
<1>5. /\ p.line \in Seq(Tokens) /\ q \in Parsers /\ q.line = p.line \o chunk
      /\ q.type = p.type /\ q.data = p.data /\ q.last = p.last
  <2>1. p.line \in Seq(Tokens)
    BY DEF Parsers
  <2>2. PICK l \in Seq(Tokens) : l = p.line \o chunk
    <3>1. p.line \o chunk \in Seq(Tokens)
      BY <2>1
    <3>. QED
      BY <3>1
  <2>3. q = [p EXCEPT !.line = l]
    BY <1>4, <2>2
  <2>. QED
    BY <2>1, <2>2, <2>3 DEF Parsers
<1>6. PICK s : s = [parser |-> q, events |-> events]
  OBVIOUS
<1>7. s \in States /\ s.parser = q /\ s.events = events
  <2>1. events \in Seq(Delivered)
    BY DEF ParserIInv, Now, States
  <2>. QED
    BY <1>5, <1>6, <2>1 DEF States
<1>8. Reads(s, T)
  <2>1. SUFFICES ASSUME Proper(T) PROVE \E h : ReadTo(s, T, h)
    BY DEF Reads
  <2>2. PICK m \in Nat, n \in Nat : m = Len(sent) /\ n = Len(chunk)
    BY DEF ParserIInv
  <2>3. sent \in Seq(Tokens) /\ Len(T) = m + n /\ \A i \in 1..m : T[i] = sent[i]
    BY <1>1, <2>2 DEF ParserIInv
  <2>4. \A i \in 1..n : T[m + i] = chunk[i]
    BY <1>1, <2>2, <2>3
  <2>5. Proper(sent)
    <3>1. \A i \in 1..(m - 1) : i \in 1..(Len(T) - 1) /\ i \in 1..m /\ i + 1 \in 1..m
      BY <2>3
    <3>. QED
      BY <2>1, <2>2, <2>3, <3>1 DEF Proper
  <2>6. PICK h : ReadTo(Now, sent, h)
    BY <2>5 DEF ParserIInv, Reads
  <2>7. h \in 0..m /\ p.line = SubSeq(sent, h + 1, m)
    BY <1>3, <2>2, <2>6 DEF ReadTo, Now
  <2>8. SubSeq(sent, 1, h) = SubSeq(T, 1, h)
    <3>1. PICK a, b : a = SubSeq(sent, 1, h) /\ b = SubSeq(T, 1, h)
      OBVIOUS
    <3>2. a \in Seq(Tokens) /\ Len(a) = h /\ \A i \in 1..h : a[i] = sent[i]
      BY <2>2, <2>3, <2>7, <3>1
    <3>3. b \in Seq(Tokens) /\ Len(b) = h /\ \A i \in 1..h : b[i] = T[i]
      BY <2>2, <2>3, <2>7, <3>1
    <3>4. \A i \in 1..h : i \in 1..m
      BY <2>7
    <3>5. \A i \in 1..h : a[i] = b[i]
      BY <2>3, <3>2, <3>3, <3>4
    <3>6. a = b
      BY <3>2, <3>3, <3>5
    <3>. QED
      BY <3>1, <3>6
  <2>9. q.line = SubSeq(T, h + 1, Len(T))
    <3>1. PICK a, b, c : a = p.line /\ b = q.line /\ c = SubSeq(T, h + 1, Len(T))
      OBVIOUS
    <3>2. h \in 0..Len(sent) /\ a = SubSeq(sent, h + 1, Len(sent)) /\ h \in 0..Len(T)
      BY <2>2, <2>3, <2>7, <3>1
    <3>3. a \in Seq(Tokens) /\ Len(a) = m - h /\ \A i \in 1..(m - h) : a[i] = sent[h + i]
      <4>1. a \in Seq(Tokens) /\ Len(a) = Len(sent) - h
            /\ \A i \in 1..(Len(sent) - h) : a[i] = sent[h + i]
        BY <2>3, <3>2, TailIs
      <4>. QED
        BY <2>2, <4>1
    <3>4. c \in Seq(Tokens) /\ Len(c) = (m + n) - h /\ \A i \in 1..((m + n) - h) : c[i] = T[h + i]
      <4>1. c \in Seq(Tokens) /\ Len(c) = Len(T) - h /\ \A i \in 1..(Len(T) - h) : c[i] = T[h + i]
        BY <3>1, <3>2, TailIs
      <4>. QED
        BY <2>3, <4>1
    <3>5. PICK g \in Nat : g = m - h
      BY <2>7
    <3>6. /\ b \in Seq(Tokens) /\ Len(b) = g + n /\ (\A i \in 1..g : b[i] = a[i])
          /\ \A i \in 1..n : b[g + i] = chunk[i]
      <4>1. b = a \o chunk /\ a \in Seq(Tokens) /\ Len(a) = g /\ Len(chunk) = n
        BY <1>5, <2>2, <3>1, <3>3, <3>5
      <4>2. Behinds(Tokens, a, chunk, b)
        BY <4>1, BehindIs
      <4>. QED
        BY <4>1, <4>2 DEF Behinds
    <3>7. g + n = (m + n) - h
      BY <2>7, <3>5
    <3>8. ASSUME NEW i \in 1..(g + n) PROVE b[i] = c[i]
      <4>1. c[i] = T[h + i]
        BY <3>4, <3>7
      <4>2. CASE i <= g
        <5>1. i \in 1..g /\ h + i \in 1..m
          BY <2>7, <3>5, <4>2
        <5>2. a[i] = sent[h + i]
          BY <3>3, <3>5, <5>1
        <5>. QED
          BY <2>3, <3>6, <4>1, <5>1, <5>2
      <4>3. CASE i > g
        <5>1. i - g \in 1..n /\ g + (i - g) = i /\ m + (i - g) = h + i
          BY <2>7, <3>5, <4>3
        <5>2. b[g + (i - g)] = chunk[i - g]
          BY <3>6, <5>1
        <5>3. T[m + (i - g)] = chunk[i - g]
          BY <2>4, <5>1
        <5>. QED
          BY <4>1, <5>1, <5>2, <5>3
      <4>. QED
        BY <4>2, <4>3
    <3>9. b = c
      BY <3>4, <3>6, <3>7, <3>8
    <3>. QED
      BY <3>1, <3>9
  <2>10. ReadTo(s, T, h)
    <3>1. h \in 0..Len(T)
      BY <2>3, <2>7
    <3>2. PICK X : X = Normal(SubSeq(T, 1, h))
      OBVIOUS
    <3>3. ParserAt(X, Now) /\ Closed(SubSeq(T, 1, h))
      BY <2>6, <2>8, <3>2 DEF ReadTo
    <3>4. Now.parser = p /\ Now.events = events
      BY <1>3 DEF Now
    <3>5. ParserAt(X, s)
      BY <1>5, <1>7, <3>3, <3>4 DEF ParserAt
    <3>. QED
      BY <1>7, <2>9, <3>1, <3>2, <3>3, <3>5 DEF ReadTo
  <2>. QED
    BY <2>10
<1>9. s \in I
  <2>1. IdsFit(s.parser.last, s.events)
    BY <1>3, <1>5, <1>7 DEF ParserIInv
  <2>. QED
    BY <1>7, <1>8, <2>1
<1>10. ASSUME NEW x \in I PROVE NextLine(x) \in I
  <2>1. x \in States /\ Reads(x, T) /\ IdsFit(x.parser.last, x.events)
    OBVIOUS
  <2>2. PICK y : y = NextLine(x)
    OBVIOUS
  <2>3. y \in States
    BY <2>1, <2>2, TurnIs DEF Takes
  <2>4. IdsFit(y.parser.last, y.events)
    BY <2>1, <2>2, TurnKeepsIds
  <2>5. Reads(y, T)
    <3>1. CASE LineEnd(x.parser.line) = 0
      BY <2>1, <2>2, <3>1, TurnIs
    <3>2. CASE LineEnd(x.parser.line) # 0
      BY <2>1, <2>2, <3>2, TurnReads DEF Reads
    <3>. QED
      BY <3>1, <3>2
  <2>. QED
    BY <2>2, <2>3, <2>4, <2>5
<1>11. PICK fed : fed = Drained(s)
  OBVIOUS
<1>12. fed \in I /\ LineEnd(fed.parser.line) = 0
  <2>1. I \subseteq States
    OBVIOUS
  <2>. HIDE DEF I
  <2>. QED
    BY <1>9, <1>10, <1>11, <2>1, LoopKeeps
<1>13. sent' = T /\ parser' = fed.parser /\ events' = fed.events
  BY <1>1, <1>3, <1>4, <1>6, <1>11, Zenon DEF FeedChunk
<1>14. fed \in States /\ Reads(fed, T) /\ IdsFit(fed.parser.last, fed.events)
  BY <1>12
<1>15. [parser |-> parser', events |-> events'] = fed
  BY <1>13, <1>14 DEF States
<1>. QED
  BY <1>12, <1>13, <1>14, <1>15 DEF ParserIInv, Now

LEMMA ParserStep == ParserIInv /\ [PNext]_pvars => ParserIInv'
<1>. SUFFICES ASSUME ParserIInv, [PNext]_pvars PROVE ParserIInv'
  OBVIOUS
<1>1. CASE PNext
  <2>1. PICK n \in 1..Min({MaxChunk, MaxText - Len(sent)}) :
             \E chunk \in [1..n -> Tokens] : FeedChunk(chunk)
    BY <1>1 DEF PNext
  <2>2. n \in Nat
    <3>1. PICK a, b \in Int : a = MaxChunk /\ b = MaxText - Len(sent)
      BY BoundsAreNaturals DEF ParserIInv
    <3>2. Min({a, b}) \in {a, b}
      <4>1. \E x \in {a, b} : \A y \in {a, b} : x <= y
        OBVIOUS
      <4>. QED
        BY <4>1 DEF Min
    <3>. QED
      BY <2>1, <3>1, <3>2
  <2>3. PICK chunk \in Seq(Tokens) : FeedChunk(chunk)
    BY <2>1, <2>2
  <2>. QED
    BY <2>3, ChunkStep
<1>2. CASE UNCHANGED pvars
  BY <1>2 DEF pvars, ParserIInv, Now
<1>. QED
  BY <1>1, <1>2

LEMMA ParserShows == ParserIInv => ChunkingIsInvisible
<1>. SUFFICES ASSUME ParserIInv PROVE ChunkingIsInvisible
  OBVIOUS
<1>1. ASSUME Proper(sent) PROVE Plain(events) = Feed(<<>>, Normal(sent)).events
  <2>1. PICK T \in Seq(Tokens) : T = sent
    BY DEF ParserIInv
  <2>2. PICK h \in 0..Len(T) : ReadTo(Now, T, h)
    BY <1>1, <2>1 DEF ParserIInv, Reads, ReadTo
  <2>3. PICK P, L : P = SubSeq(T, 1, h) /\ L = SubSeq(T, h + 1, Len(T))
    OBVIOUS
  <2>4. parser.line = L /\ ParserAt(Normal(P), Now) /\ Closed(P)
    BY <2>2, <2>3 DEF ReadTo, Now
  <2>5. L \in Seq(Tokens) /\ Len(L) = Len(T) - h /\ (\A i \in 1..(Len(T) - h) : L[i] = T[h + i]) /\ Proper(L)
    <3>1. Proper(T) /\ L = SubSeq(T, h + 1, Len(T))
      BY <1>1, <2>1, <2>3
    <3>. QED
      BY <3>1, ProperTail, ZenonT(60)
  <2>6. Newline # Return
    BY DEF Newline, Return
  <2>7. \A i \in 1..Len(L) : L[i] # Newline
    BY <2>4, <2>5, <2>6, EndsAtNewline DEF ParserIInv
  <2>8. P \in Seq(Tokens) /\ Len(P) = h /\ \A i \in 1..h : P[i] = T[i]
    BY <2>3
  <2>9. Behinds(Tokens, P, L, T)
    <3>1. Len(T) = Len(P) + Len(L)
      BY <2>5, <2>8
    <3>2. {P, L, T} \subseteq Seq(Tokens)
      BY <2>5, <2>8
    <3>. QED
      BY <2>5, <2>8, <3>1, <3>2 DEF Behinds
  <2>10. Uncut(P, L)
    BY <2>4, <2>6 DEF Uncut, Closed
  <2>11. Normal(T) = Normal(P) \o Normal(L)
    BY <2>9, <2>10, NormalBehind
  <2>12. Normal(L) = L
    <3>1. \A i \in 1..Len(L) : L[i] = Return => ~(i < Len(L) /\ L[i + 1] = Newline)
      <4>1. \A i \in 1..Len(L) : i < Len(L) => i + 1 \in 1..Len(L)
        BY <2>5
      <4>. QED
        BY <2>7, <4>1
    <3>. QED
      BY <2>5, <3>1, NormalKeeps
  <2>13. PICK X \in Seq(Tokens) : X = Normal(P)
    BY <2>8, NormalIs
  <2>14. PICK Y : Y = Normal(T)
    OBVIOUS
  <2>15. Behinds(Tokens, X, L, Y)
    BY <2>5, <2>11, <2>12, <2>13, <2>14, BehindIs
  <2>16. \A i \in 1..Len(L) : ~BlankLine(L, i)
    BY <2>7 DEF BlankLine
  <2>17. Evs(Y) = Evs(X)
    BY <2>4, <2>13, <2>15, <2>16, LinesAddNone DEF ParserAt
  <2>18. Plain(events) = Evs(X)
    BY <2>4, <2>13 DEF ParserAt, Now
  <2>. QED
    BY <2>1, <2>14, <2>17, <2>18 DEF Evs
<1>2. IdsFit(parser.last, events)
  BY DEF ParserIInv
<1>. QED
  BY <1>1, <1>2 DEF ChunkingIsInvisible, IdsFit

\* Where "\r" comes only before "\n", the events so far, the event being read
\* and line_buf are those of the text that was fed, however it was cut.
THEOREM ParserInvariant == PSpec => []ParserIInv
<1>. QED
  BY ParserBegins, ParserStep, PTL DEF PSpec

\* Chunks do not show in the events, and last_event_id is that of the last
\* delivered event with an id.
THEOREM ChunksAreInvisible == PSpec => []ChunkingIsInvisible
<1>. QED
  BY ParserInvariant, ParserShows, PTL

-----------------------------------------------------------------------------
(* Signals, for any set of them.                                           *)

\* The handler marks the signal and then wakes the waiter.
LEMMA TwoSteps == Len(Steps) = 2 /\ Steps[1] = "mark" /\ Steps[2] = "wake"
  BY DEF Steps

LEMMA SignalInitially == SignalInit => SignalIInv
<1>. SUFFICES ASSUME SignalInit PROVE SignalIInv
  OBVIOUS
<1>. USE TwoSteps DEF SignalInit
<1>1. 0..Len(Steps) = 0..2 /\ handler \in [Signals -> 0..2]
  OBVIOUS
<1>2. SignalTypeOK
  BY <1>1 DEF SignalTypeOK
<1>3. \A s \in Signals : handler[s] = 0
  OBVIOUS
<1>. QED
  BY <1>2, <1>3 DEF SignalIInv, MarkedFirst, SignalIsHeard

\* A step of a handler: its first makes the signal known, its second leaves a
\* byte in the pipe.
LEMMA HandlerKeeps ==
  ASSUME SignalIInv, NEW s \in Signals, HandlerStep(s)
  PROVE  SignalIInv'
<1>. USE TwoSteps, NoneIsNoSignal DEF SignalIInv, HandlerStep
<1>1. handler[s] \in {0, 1} /\ handler' \in [Signals -> 0..2]
      /\ handler'[s] = handler[s] + 1 /\ \A r \in Signals \ {s} : handler'[r] = handler[r]
  BY DEF SignalTypeOK
<1>2. CASE handler[s] = 0
  <2>1. Mark(s)
    BY <1>2
  <2>2. first' = shutdownSignal' /\ first' # None /\ (first # None => first' = first)
    BY <2>1 DEF Mark, MarkedFirst, SignalTypeOK
  <2>3. SignalTypeOK'
    BY <1>1, <2>1, ZenonT(60) DEF Mark, SignalTypeOK
  <2>4. SignalIsHeard'
    BY <1>1, <1>2, <2>1, <2>2 DEF Mark, SignalIsHeard
  <2>. QED
    BY <2>2, <2>3, <2>4 DEF MarkedFirst
<1>3. CASE handler[s] = 1
  <2>1. Wake
    BY <1>3
  <2>2. first # None /\ first' = first
    BY <1>3 DEF MarkedFirst
  <2>3. pipe' \in Nat /\ pipe' > 0
    BY <2>1 DEF Wake, SignalTypeOK
  <2>. QED
    BY <1>1, <2>1, <2>2, <2>3 DEF Wake, SignalTypeOK, MarkedFirst, SignalIsHeard
<1>. QED
  BY <1>1, <1>2, <1>3

\* A step of the thread in wait(): it goes to read only if no signal is known,
\* and so before any handler has left its byte.
LEMMA WaiterKeeps ==
  ASSUME SignalIInv, Check \/ ReadPipe \/ Woken
  PROVE  SignalIInv'
<1>. USE TwoSteps DEF SignalIInv, SignalTypeOK, MarkedFirst, SignalIsHeard
<1>1. CASE Check
  BY <1>1 DEF Check
<1>2. CASE ReadPipe
  BY <1>2 DEF ReadPipe
<1>3. CASE Woken
  BY <1>3 DEF Woken
<1>. QED
  BY <1>1, <1>2, <1>3

\* SignalIInv is an invariant.
THEOREM SignalInvariant == SignalSpec => []SignalIInv
<1>1. SignalIInv /\ [SignalNext]_signalVars => SignalIInv'
  <2>. SUFFICES ASSUME SignalIInv, [SignalNext]_signalVars PROVE SignalIInv'
    OBVIOUS
  <2>1. CASE UNCHANGED signalVars
    BY <2>1 DEF signalVars, SignalIInv, SignalTypeOK, MarkedFirst, SignalIsHeard
  <2>2. CASE SignalNext
    BY <2>2, HandlerKeeps, WaiterKeeps DEF SignalNext
  <2>. QED
    BY <2>1, <2>2
<1>. QED
  BY <1>1, SignalInitially, PTL DEF SignalSpec

\* However many signals come and however their handlers interleave with
\* wait(), it returns the first of them and never sleeps past one.
THEOREM NoSignalIsLost == SignalSpec => []SignalIsHeard
<1>1. SignalIInv => SignalIsHeard
  BY DEF SignalIInv
<1>. QED
  BY <1>1, SignalInvariant, PTL

-----------------------------------------------------------------------------
(* The OAuth2 server, for any calls, any loads and any lifetimes.          *)

USE LoadsAreOfCalls, TtlsAreNat, NamesDiffer

-----------------------------------------------------------------------------
(* What an insertion leaves, and what no step takes back.                  *)

\* Insert() adds its entry and keeps those that are alive.
LEMMA Insertion ==
  ASSUME NEW map, NEW h, NEW entry
  PROVE  /\ DOMAIN Insert(map, h, entry) = {h} \cup Alive(map)
         /\ Insert(map, h, entry)[h] = entry
         /\ \A k \in Alive(map) \ {h} : Insert(map, h, entry)[k] = map[k]
  BY DEF Insert

\* What is settled stays: a call's answer, the code it took, a registration.
Settled ==
  /\ ask' = ask
  /\ now' \in Nat /\ now <= now'
  /\ clients \subseteq clients'
  /\ \A h \in Calls :
       /\ answer[h].status # "none" => answer'[h] = answer[h]
       /\ answer'[h] # answer[h] => answer'[h].at = now /\ now' = now
       /\ held[h] # {} => held'[h] = held[h]

LEMMA StepSettles ==
  ASSUME OTypeOK, StepsFit, ONext
  PROVE  Settled
<1>. USE DEF OTypeOK, StepsFit, Settled, Goto, Answer, NoAnswer, At
<1>1. ASSUME NEW h \in Calls, Register(h) PROVE Settled
  BY <1>1 DEF Register
<1>2. ASSUME NEW h \in Calls, CheckClient(h) PROVE Settled
  BY <1>2 DEF CheckClient
<1>3. ASSUME NEW h \in Calls, StoreCode(h) PROVE Settled
  BY <1>3 DEF StoreCode
<1>4. ASSUME NEW h \in Calls, VerifyClient(h) PROVE Settled
  BY <1>4 DEF VerifyClient
<1>5. ASSUME NEW h \in Calls, TakeCode(h) PROVE Settled
  BY <1>5 DEF TakeCode
<1>6. ASSUME NEW h \in Calls, CheckCode(h) PROVE Settled
  BY <1>6 DEF CheckCode
<1>7. ASSUME NEW h \in Calls, IssueToken(h) PROVE Settled
  BY <1>7 DEF IssueToken
<1>8. ASSUME NEW h \in Calls, Bearer(h) PROVE Settled
  BY <1>8 DEF Bearer
<1>9. CASE Tick
  BY <1>9 DEF Tick
<1>. QED
  BY <1>1, <1>2, <1>3, <1>4, <1>5, <1>6, <1>7, <1>8, <1>9 DEF ONext

LEMMA CodeIsACall ==
  ASSUME OTypeOK, NEW h \in Calls, ask[h].kind = "redeem"
  PROVE  ask[h].code \in Calls
  BY LoadsAreFormed DEF OTypeOK

\* So does what was earned.
LEMMA StaysTrue ==
  ASSUME OTypeOK, Settled
  PROVE  /\ \A h \in Calls, s \in {"code", "token", "refused", "admitted", "unauthorized"} :
              Answered(h, s) => Answered(h, s)' /\ answer'[h] = answer[h]
         /\ \A c : Known(c) => Known(c)'
         /\ \A c : Redemptions(c) \subseteq Redemptions(c)'
         /\ \A h \in Calls : Entitled(h) => Entitled(h)'
         /\ \A h \in Calls : Earned(h) => Earned(h)'
<1>1. \A h \in Calls, s \in {"code", "token", "refused", "admitted", "unauthorized"} :
        Answered(h, s) => Answered(h, s)' /\ answer'[h] = answer[h]
  BY DEF Settled, Answered
<1>2. \A c : Known(c) => Known(c)'
  BY DEF Settled, Known
<1>3. \A c : Redemptions(c) \subseteq Redemptions(c)'
  BY DEF Settled, Redemptions
<1>4. ASSUME NEW h \in Calls, Entitled(h) PROVE Entitled(h)'
  BY <1>1, <1>2, <1>4, CodeIsACall DEF Settled, Entitled, Verified
<1>5. ASSUME NEW h \in Calls, Earned(h) PROVE Earned(h)'
  BY <1>1, <1>4, <1>5, CodeIsACall DEF Settled, Earned, Entitled
<1>. QED
  BY <1>1, <1>2, <1>3, <1>4, <1>5

\* A step answers one call at most, each kind of step in its own way.
LEMMA OneAnswer ==
  ASSUME ONext
  PROVE  \/ answer' = answer
         \/ \E h \in Calls :
              \/ Register(h) /\ Answer(h, "client")
              \/ StoreCode(h) /\ Answer(h, "code")
              \/ IssueToken(h) /\ Answer(h, "token")
              \/ Bearer(h) /\ Answer(h, "admitted")
              \/ Bearer(h) /\ Answer(h, "unauthorized")
              \/ CheckClient(h) /\ Answer(h, "refused")
              \/ VerifyClient(h) /\ Answer(h, "refused")
              \/ TakeCode(h) /\ Answer(h, "refused")
              \/ CheckCode(h) /\ Answer(h, "refused")
<1>1. \A h \in Calls : Register(h) => Answer(h, "client")
  BY DEF Register
<1>2. \A h \in Calls : StoreCode(h) => Answer(h, "code")
  BY DEF StoreCode
<1>3. \A h \in Calls : IssueToken(h) => Answer(h, "token")
  BY DEF IssueToken
<1>4. \A h \in Calls : Bearer(h) => Answer(h, "admitted") \/ Answer(h, "unauthorized")
  BY DEF Bearer
<1>5. \A h \in Calls : CheckClient(h) => answer' = answer \/ Answer(h, "refused")
  BY DEF CheckClient
<1>6. \A h \in Calls : VerifyClient(h) => answer' = answer \/ Answer(h, "refused")
  BY DEF VerifyClient
<1>7. \A h \in Calls : TakeCode(h) => answer' = answer \/ Answer(h, "refused")
  BY DEF TakeCode
<1>8. \A h \in Calls : CheckCode(h) => answer' = answer \/ Answer(h, "refused")
  BY DEF CheckCode
<1>9. Tick => answer' = answer
  BY DEF Tick
<1>. QED
  BY <1>1, <1>2, <1>3, <1>4, <1>5, <1>6, <1>7, <1>8, <1>9 DEF ONext

LEMMA OnlyOneChanges ==
  ASSUME OTypeOK, NEW h \in Calls, NEW s, Answer(h, s)
  PROVE  /\ answer'[h] = [status |-> s, at |-> now]
         /\ \A c \in Calls : answer'[c] = answer[c] \/ c = h
         /\ \A q : \A c \in Calls : Answered(c, q)' => (q = s /\ c = h) \/ Answered(c, q)
  BY DEF OTypeOK, Answer, Answered

LEMMA WhoAnswers ==
  ASSUME OTypeOK, ONext, NEW h \in Calls, NEW s, Answered(h, s)', ~Answered(h, s)
  PROVE  /\ answer'[h] = [status |-> s, at |-> now]
         /\ s = "refused" => CheckClient(h) \/ VerifyClient(h) \/ TakeCode(h) \/ CheckCode(h)
         /\ s \in {"admitted", "unauthorized"} => Bearer(h)
<1>1. answer' # answer
  BY DEF Answered
<1>2. ASSUME NEW g \in Calls, NEW q, Answer(g, q)
      PROVE  g = h /\ q = s /\ answer'[h] = [status |-> s, at |-> now]
  BY <1>2, OnlyOneChanges
<1>. QED
  BY <1>1, <1>2, OneAnswer

-----------------------------------------------------------------------------
(* One lemma for each conjunct of OIInv                                    *)

LEMMA OInitially == OInit => OIInv
<1>. SUFFICES ASSUME OInit PROVE OIInv
  OBVIOUS
<1>. USE DEF OInit
<1>1. OTypeOK
  BY DEF OTypeOK, NoAnswer
<1>2. StepsFit
  BY DEF StepsFit
<1>3. \A h \in Calls, s \in {"code", "token", "refused", "admitted", "unauthorized"} :
        ~Answered(h, s)
  BY DEF Answered, NoAnswer
<1>4. \A c : Redemptions(c) = {}
  BY DEF Redemptions
<1>5. CodesExact
  BY <1>3, <1>4 DEF CodesExact
<1>6. TokensExact /\ AdmissionIsExact /\ RefusalsExact
  BY <1>3 DEF TokensExact, AdmissionIsExact, RefusalsExact
<1>. QED
  BY <1>1, <1>2, <1>5, <1>6 DEF OIInv

LEMMA OTypeStep ==
  ASSUME OTypeOK, ONext
  PROVE  OTypeOK'
<1>. USE DEF OTypeOK, Goto, Answer, At
<1>1. ASSUME NEW h \in Calls, Register(h) PROVE OTypeOK'
  BY <1>1 DEF Register
<1>2. ASSUME NEW h \in Calls, CheckClient(h) PROVE OTypeOK'
  BY <1>2 DEF CheckClient
<1>3. ASSUME NEW h \in Calls, StoreCode(h) PROVE OTypeOK'
  <2>1. DOMAIN codes' \subseteq Calls
    BY <1>3 DEF StoreCode, Insert, Alive
  <2>. QED
    BY <1>3, <2>1 DEF StoreCode
<1>4. ASSUME NEW h \in Calls, VerifyClient(h) PROVE OTypeOK'
  <2>1. PICK to \in {"issue", "take", "done"} : step' = [step EXCEPT ![h] = to]
    BY <1>4 DEF VerifyClient
  <2>2. answer' \in {answer, [answer EXCEPT ![h] = [status |-> "refused", at |-> now]]}
    BY <1>4 DEF VerifyClient
  <2>3. UNCHANGED <<now, ask, clients, codes, tokens, held>>
    BY <1>4 DEF VerifyClient
  <2>. QED
    BY <2>1, <2>2, <2>3
<1>5. ASSUME NEW h \in Calls, TakeCode(h) PROVE OTypeOK'
  BY <1>5 DEF TakeCode, CodesAfterTake, Restrict
<1>6. ASSUME NEW h \in Calls, CheckCode(h) PROVE OTypeOK'
  BY <1>6 DEF CheckCode
<1>7. ASSUME NEW h \in Calls, IssueToken(h) PROVE OTypeOK'
  <2>1. DOMAIN tokens' \subseteq Calls
    BY <1>7 DEF IssueToken, Insert, Alive
  <2>. QED
    BY <1>7, <2>1 DEF IssueToken
<1>8. ASSUME NEW h \in Calls, Bearer(h) PROVE OTypeOK'
  BY <1>8 DEF Bearer
<1>9. CASE Tick
  BY <1>9 DEF Tick
<1>. QED
  BY <1>1, <1>2, <1>3, <1>4, <1>5, <1>6, <1>7, <1>8, <1>9 DEF ONext

LEMMA StepsStep ==
  ASSUME OIInv, ONext
  PROVE  StepsFit'
<1>. USE DEF OIInv
<1>1. Settled
  BY StepSettles
<1>2. \A c : Known(c) => Known(c)'
  BY <1>1, StaysTrue
<1>3. \A c : Verified(c, c) => Verified(c, c)'
  BY <1>2 DEF Verified
<1>4. \A h \in Calls : Entitled(h) => Entitled(h)'
  BY <1>1, StaysTrue
<1>. USE DEF OTypeOK, StepsFit, Goto, Answer, At, Verified
<1>5. ASSUME NEW h \in Calls, Register(h) PROVE StepsFit'
  BY <1>2, <1>4, <1>5 DEF Register
<1>6. ASSUME NEW h \in Calls, CheckClient(h) PROVE StepsFit'
  BY <1>2, <1>4, <1>6 DEF CheckClient
<1>7. ASSUME NEW h \in Calls, StoreCode(h) PROVE StepsFit'
  BY <1>2, <1>4, <1>7 DEF StoreCode
<1>8. ASSUME NEW h \in Calls, VerifyClient(h) PROVE StepsFit'
  <2>1. ask[h].kind = "credentials" /\ Verified(ask[h].client, ask[h].secret) => Entitled(h)
    BY DEF Entitled
  <2>. QED
    BY <1>2, <1>4, <1>8, <2>1 DEF VerifyClient
<1>9. ASSUME NEW h \in Calls, TakeCode(h) PROVE StepsFit'
  <2>1. step[h] = "take" /\ UNCHANGED <<now, ask, clients, tokens>>
    BY <1>9 DEF TakeCode
  <2>2. CASE ask[h].code \in DOMAIN codes
    <3>1. step' = [step EXCEPT ![h] = "check"] /\ UNCHANGED answer
      BY <1>9, <2>2 DEF TakeCode
    <3>2. held' = [held EXCEPT ![h] = {codes[ask[h].code]}]
      BY <1>9, <2>2 DEF TakeCode
    <3>3. held'[h] # {} /\ \A g \in Calls \ {h} : held'[g] = held[g]
      BY <3>2
    <3>. QED
      BY <1>2, <1>4, <2>1, <3>1, <3>3
  <2>3. CASE ask[h].code \notin DOMAIN codes
    BY <1>2, <1>4, <1>9, <2>1, <2>3 DEF TakeCode
  <2>. QED
    BY <2>2, <2>3
<1>10. ASSUME NEW h \in Calls, CheckCode(h) PROVE StepsFit'
  <2>1. ASSUME NEW code \in held[h], Redeems(h, code) PROVE Entitled(h)
    BY <1>10, <2>1 DEF CheckCode, CodesExact, CodeOf, Redeems, Entitled
  <2>. QED
    BY <1>2, <1>4, <1>10, <2>1 DEF CheckCode
<1>11. ASSUME NEW h \in Calls, IssueToken(h) PROVE StepsFit'
  BY <1>2, <1>4, <1>11 DEF IssueToken
<1>12. ASSUME NEW h \in Calls, Bearer(h) PROVE StepsFit'
  BY <1>2, <1>4, <1>12 DEF Bearer
<1>13. CASE Tick
  BY <1>2, <1>4, <1>13 DEF Tick
<1>. QED
  BY <1>5, <1>6, <1>7, <1>8, <1>9, <1>10, <1>11, <1>12, <1>13 DEF ONext

\* A step that does not touch the codes and gives none leaves them exact.
LEMMA CodesRest ==
  ASSUME OIInv, Settled, UNCHANGED <<codes, held>>,
         \A c \in Calls : Answered(c, "code")' => Answered(c, "code")
  PROVE  CodesExact'
<1>. USE DEF OIInv
<1>1. \A c : Redemptions(c)' = Redemptions(c)
  BY DEF Redemptions, Settled
<1>2. \A c \in Calls : Answered(c, "code") =>
        /\ Answered(c, "code")' /\ answer'[c] = answer[c] /\ CodeOf(c)' = CodeOf(c)
        /\ Known(ask[c].client) => Known(ask[c].client)'
  BY StaysTrue DEF CodeOf, FromQuery, Settled
<1>3. \A c \in DOMAIN codes' :
        Answered(c, "code")' /\ codes'[c] = CodeOf(c)' /\ Redemptions(c)' = {}
  BY <1>1, <1>2 DEF CodesExact, OTypeOK
<1>4. ASSUME NEW c \in Calls, Answered(c, "code")'
      PROVE  /\ Known(ask[c].client)'
             /\ \/ c \in DOMAIN codes' \/ Redemptions(c)' # {}
                \/ now' >= answer'[c].at + CodeTtl
  BY <1>1, <1>2, <1>4 DEF CodesExact, Settled, OTypeOK
<1>5. ASSUME NEW h \in Calls, held'[h] # {}
      PROVE  (/\ ask[h].kind = "redeem" /\ Answered(ask[h].code, "code")
               /\ held[h] = {CodeOf(ask[h].code)})'
  BY <1>2, <1>5, CodeIsACall DEF CodesExact, Settled
<1>6. \A c \in Calls : \A g, h \in Redemptions(c)' : g = h
  BY <1>1 DEF CodesExact
<1>. QED
  BY <1>3, <1>4, <1>5, <1>6 DEF CodesExact, Settled

LEMMA StoreKeepsCodes ==
  ASSUME OIInv, NEW h \in Calls, StoreCode(h)
  PROVE  CodesExact'
<1>. USE DEF OIInv, OTypeOK
<1>1. Settled
  BY StepSettles DEF ONext
<1>2. step[h] = "store" /\ UNCHANGED <<now, ask, held>>
  BY DEF StoreCode, Goto
<1>3. answer' = [answer EXCEPT ![h] = [status |-> "code", at |-> now]]
  BY DEF StoreCode, Answer
<1>4. codes' = Insert(codes, h, CodeOf(h)')
  BY <1>2, <1>3 DEF StoreCode, CodeOf, FromQuery
<1>5. \A c : Redemptions(c)' = Redemptions(c)
  BY <1>2 DEF Redemptions
<1>6. Redemptions(h) = {} /\ Known(ask[h].client) /\ ~Answered(h, "code")
  BY <1>2 DEF StepsFit, CodesExact, Redemptions, Answered, NoAnswer
<1>7. \A c \in Calls : Answered(c, "code") =>
        /\ Answered(c, "code")' /\ answer'[c] = answer[c] /\ CodeOf(c)' = CodeOf(c)
        /\ Known(ask[c].client) => Known(ask[c].client)'
  BY <1>1, StaysTrue DEF CodeOf, FromQuery, Settled
<1>8. Answered(h, "code")' /\ \A c \in Calls \ {h} : Answered(c, "code")' => Answered(c, "code")
  BY <1>3 DEF Answered
<1>9. Known(ask[h].client)'
  BY <1>1, <1>2, <1>6, StaysTrue
<1>10. ASSUME NEW c \in DOMAIN codes'
       PROVE  Answered(c, "code")' /\ codes'[c] = CodeOf(c)' /\ Redemptions(c)' = {}
  BY <1>4, <1>5, <1>6, <1>7, <1>8 DEF CodesExact, Insert, Alive
<1>11. ASSUME NEW c \in Calls, Answered(c, "code")'
       PROVE  /\ Known(ask[c].client)'
              /\ \/ c \in DOMAIN codes' \/ Redemptions(c)' # {}
                 \/ now' >= answer'[c].at + CodeTtl
  <2>1. CASE c = h
    BY <1>4, <1>9, <2>1 DEF Insert
  <2>2. CASE c # h
    <3>1. Answered(c, "code") /\ answer'[c] = answer[c]
      BY <1>7, <1>8, <1>11, <2>2
    <3>2. c \in DOMAIN codes => codes[c].expires = answer[c].at + CodeTtl
      BY DEF CodesExact, CodeOf
    <3>3. c \in DOMAIN codes => c \in DOMAIN codes' \/ now >= answer[c].at + CodeTtl
      BY <1>4, <3>2 DEF Insert, Alive
    <3>. QED
      BY <1>2, <1>5, <1>7, <3>1, <3>3 DEF CodesExact
  <2>. QED
    BY <2>1, <2>2
<1>12. ASSUME NEW g \in Calls, held'[g] # {}
       PROVE  (/\ ask[g].kind = "redeem" /\ Answered(ask[g].code, "code")
               /\ held[g] = {CodeOf(ask[g].code)})'
  BY <1>2, <1>7, <1>12, CodeIsACall DEF CodesExact
<1>13. \A c \in Calls : \A f, g \in Redemptions(c)' : f = g
  BY <1>5 DEF CodesExact
<1>. QED
  BY <1>2, <1>10, <1>11, <1>12, <1>13 DEF CodesExact

LEMMA TakeKeepsCodes ==
  ASSUME OIInv, NEW h \in Calls, TakeCode(h)
  PROVE  CodesExact'
<1>. USE DEF OIInv, OTypeOK
<1>1. Settled
  BY StepSettles DEF ONext
<1>2. step[h] = "take" /\ UNCHANGED <<now, ask>> /\ held[h] = {} /\ ask[h].kind = "redeem"
  BY DEF TakeCode, Goto, StepsFit
<1>3. \A c \in Calls : Answered(c, "code")' => Answered(c, "code")
  BY DEF TakeCode, Answer, Answered
<1>4. CASE ask[h].code \notin DOMAIN codes
  BY <1>1, <1>3, <1>4, CodesRest DEF TakeCode
<1>5. CASE ask[h].code \in DOMAIN codes
  <2>. PICK code \in Calls : code = ask[h].code
    BY <1>5
  <2>1. answer' = answer /\ held' = [held EXCEPT ![h] = {codes[code]}]
    BY <1>5 DEF TakeCode
  <2>2. DOMAIN codes' = DOMAIN codes \ {code} /\ \A c \in DOMAIN codes' : codes'[c] = codes[c]
    BY <1>5 DEF TakeCode, CodesAfterTake, Restrict
  <2>3. Answered(code, "code") /\ codes[code] = CodeOf(code) /\ Redemptions(code) = {}
    BY <1>5 DEF CodesExact
  <2>4. \A c : CodeOf(c)' = CodeOf(c)
    BY <1>2, <2>1 DEF CodeOf, FromQuery
  <2>5. \A c, s : Answered(c, s)' = Answered(c, s)
    BY <2>1 DEF Answered
  <2>6. held'[h] = {codes[code]} /\ \A g \in Calls \ {h} : held'[g] = held[g]
    BY <2>1
  <2>7. held'[h] # {}
    BY <2>6
  <2>8. Redemptions(code)' = {h}
    BY <1>2, <2>3, <2>6, <2>7 DEF Redemptions
  <2>9. \A c : c # code => Redemptions(c)' = Redemptions(c)
    BY <1>2, <2>6 DEF Redemptions
  <2>10. \A c \in DOMAIN codes' :
           Answered(c, "code")' /\ codes'[c] = CodeOf(c)' /\ Redemptions(c)' = {}
    BY <2>2, <2>4, <2>5, <2>9 DEF CodesExact
  <2>11. \A c \in Calls : Known(ask[c].client) => Known(ask[c].client)'
    BY <1>1 DEF Known, Settled
  <2>12. ASSUME NEW c \in Calls, Answered(c, "code")'
         PROVE  /\ Known(ask[c].client)'
                /\ \/ c \in DOMAIN codes' \/ Redemptions(c)' # {}
                   \/ now' >= answer'[c].at + CodeTtl
    <3>1. CASE c = code
      <4>1. Redemptions(c)' # {}
        BY <2>8, <3>1
      <4>2. Known(ask[c].client)
        BY <2>3, <3>1 DEF CodesExact
      <4>. QED
        BY <1>1, <1>2, <4>1, <4>2 DEF Known, Settled
    <3>2. CASE c # code
      BY <1>2, <2>1, <2>2, <2>5, <2>9, <2>11, <2>12, <3>2 DEF CodesExact
    <3>. QED
      BY <3>1, <3>2
  <2>13. ASSUME NEW g \in Calls, held'[g] # {}
         PROVE  (/\ ask[g].kind = "redeem" /\ Answered(ask[g].code, "code")
                 /\ held[g] = {CodeOf(ask[g].code)})'
    <3>1. CASE g = h
      BY <1>2, <2>3, <2>4, <2>5, <2>6, <3>1
    <3>2. CASE g # h
      BY <1>2, <2>4, <2>5, <2>6, <2>13, <3>2 DEF CodesExact
    <3>. QED
      BY <3>1, <3>2
  <2>14. ASSUME NEW c \in Calls PROVE \A f, g \in Redemptions(c)' : f = g
    <3>1. CASE c = code
      BY <2>8, <3>1
    <3>2. CASE c # code
      <4>1. Redemptions(c)' = Redemptions(c)
        BY <2>9, <3>2
      <4>. QED
        BY <4>1 DEF CodesExact
    <3>. QED
      BY <3>1, <3>2
  <2>. QED
    BY <1>2, <2>10, <2>12, <2>13, <2>14 DEF CodesExact
<1>. QED
  BY <1>4, <1>5

LEMMA CodesStep ==
  ASSUME OIInv, ONext
  PROVE  CodesExact'
<1>1. Settled
  BY StepSettles DEF OIInv
<1>2. CASE \E h \in Calls : StoreCode(h) \/ TakeCode(h)
  BY <1>2, StoreKeepsCodes, TakeKeepsCodes
<1>3. CASE ~(\E h \in Calls : StoreCode(h) \/ TakeCode(h))
  <2>1. UNCHANGED <<codes, held>>
    BY <1>3 DEF ONext, Register, CheckClient, VerifyClient, CheckCode, IssueToken, Bearer, Tick
  <2>2. \A c \in Calls : Answered(c, "code")' => Answered(c, "code")
    <3>1. CASE answer' = answer
      BY <3>1 DEF Answered
    <3>2. ASSUME NEW h \in Calls, NEW q, q # "code", Answer(h, q)
          PROVE  \A c \in Calls : Answered(c, "code")' => Answered(c, "code")
      BY <3>2, OnlyOneChanges DEF OIInv
    <3>. QED
      BY <1>3, <3>1, <3>2, OneAnswer
  <2>. QED
    BY <1>1, <2>1, <2>2, CodesRest
<1>. QED
  BY <1>2, <1>3

LEMMA TokensStep ==
  ASSUME OIInv, ONext
  PROVE  TokensExact'
<1>. USE DEF OIInv, OTypeOK
<1>1. Settled
  BY StepSettles
<1>2. \A t \in Calls : Answered(t, "token") => Answered(t, "token")' /\ answer'[t] = answer[t]
  BY <1>1, StaysTrue
<1>3. \A t \in Calls : Earned(t) => Earned(t)'
  BY <1>1, StaysTrue
<1>4. ASSUME NEW h \in Calls, IssueToken(h) PROVE TokensExact'
  <2>1. tokens' = Insert(tokens, h, [expires |-> now + TokenTtl]) /\ now' = now /\ ask' = ask
    BY <1>4 DEF IssueToken
  <2>2. answer'[h] = [status |-> "token", at |-> now] /\ Answered(h, "token")'
        /\ \A t \in Calls : t # h => answer'[t] = answer[t]
    BY <1>4 DEF IssueToken, Answer, Answered
  <2>3. Entitled(h)'
    BY <1>1, <1>4, StaysTrue DEF IssueToken, Goto, StepsFit
  <2>4. Earned(h)'
    <3>1. ASSUME ask[h].kind = "redeem" PROVE answer'[ask[h].code].at <= answer'[h].at
      BY <2>2, <3>1, CodeIsACall
    <3>. QED
      BY <2>1, <2>2, <2>3, <3>1 DEF Earned
  <2>5. ASSUME NEW t \in DOMAIN tokens'
        PROVE  Answered(t, "token")' /\ tokens'[t] = [expires |-> answer'[t].at + TokenTtl]
    <3>1. CASE t = h
      BY <2>1, <2>2, <3>1 DEF Insert
    <3>2. CASE t # h
      <4>1. t \in DOMAIN tokens /\ tokens'[t] = tokens[t]
        BY <2>1, <3>2 DEF Insert, Alive
      <4>. QED
        BY <1>2, <4>1 DEF TokensExact
    <3>. QED
      BY <3>1, <3>2
  <2>6. ASSUME NEW t \in Calls, Answered(t, "token")'
        PROVE  Earned(t)' /\ (t \in DOMAIN tokens' \/ now' >= answer'[t].at + TokenTtl)
    <3>1. CASE t = h
      BY <2>1, <2>4, <3>1 DEF Insert
    <3>2. CASE t # h
      <4>1. Answered(t, "token") /\ answer'[t] = answer[t]
        BY <2>2, <2>6, <3>2 DEF Answered
      <4>2. t \in DOMAIN tokens => tokens[t].expires = answer[t].at + TokenTtl
        BY DEF TokensExact
      <4>3. t \in DOMAIN tokens => t \in DOMAIN tokens' \/ now >= answer[t].at + TokenTtl
        BY <2>1, <4>2 DEF Insert, Alive
      <4>. QED
        BY <1>3, <2>1, <4>1, <4>3 DEF TokensExact
    <3>. QED
      BY <3>1, <3>2
  <2>. QED
    BY <2>5, <2>6 DEF TokensExact
<1>5. CASE ~(\E h \in Calls : IssueToken(h))
  <2>1. tokens' = tokens
    BY <1>5 DEF ONext, Register, CheckClient, StoreCode, VerifyClient, TakeCode, CheckCode,
                Bearer, Tick
  <2>2. \A t \in Calls : Answered(t, "token")' => Answered(t, "token")
    <3>1. CASE answer' = answer
      BY <3>1 DEF Answered
    <3>2. ASSUME NEW h \in Calls, NEW q, q # "token", Answer(h, q)
          PROVE  \A t \in Calls : Answered(t, "token")' => Answered(t, "token")
      BY <3>2, OnlyOneChanges
    <3>. QED
      BY <1>5, <3>1, <3>2, OneAnswer
  <2>3. \A t \in DOMAIN tokens' :
          Answered(t, "token")' /\ tokens'[t] = [expires |-> answer'[t].at + TokenTtl]
    BY <1>2, <2>1 DEF TokensExact
  <2>4. ASSUME NEW t \in Calls, Answered(t, "token")'
        PROVE  Earned(t)' /\ (t \in DOMAIN tokens' \/ now' >= answer'[t].at + TokenTtl)
    BY <1>1, <1>2, <1>3, <2>1, <2>2, <2>4 DEF TokensExact, Settled
  <2>. QED
    BY <2>3, <2>4 DEF TokensExact
<1>. QED
  BY <1>4, <1>5

LEMMA AdmissionStep ==
  ASSUME OIInv, ONext
  PROVE  AdmissionIsExact'
<1>. USE DEF OIInv, OTypeOK
<1>1. Settled
  BY StepSettles
<1>2. SUFFICES ASSUME NEW m \in Calls, ask[m].kind = "bearer"
      PROVE  LET t == ask[m].token IN
               (/\ Answered(m, "admitted") =>
                     Earned(t) /\ answer[m].at < answer[t].at + TokenTtl
                /\ Answered(m, "unauthorized") =>
                     \/ ~Answered(t, "token")
                     \/ answer[m].at <= answer[t].at
                     \/ answer[m].at >= answer[t].at + TokenTtl)'
  BY <1>1 DEF AdmissionIsExact, Settled
<1>3. PICK t \in Calls : t = ask[m].token
  BY <1>2, LoadsAreFormed
<1>4. ask'[m].token = t
  BY <1>1, <1>3 DEF Settled
<1>5. Earned(t) => Earned(t)' /\ answer'[t] = answer[t]
  BY <1>1, StaysTrue DEF Earned
<1>6. \A q \in {"admitted", "unauthorized"} : Answered(m, q) => answer'[m] = answer[m]
  BY <1>1, StaysTrue
<1>7. answer'[t] = answer[t] \/ (answer'[t].at = now /\ ~Answered(t, "token"))
  BY <1>1, StaysTrue DEF Settled
<1>8. CASE Answered(m, "admitted")' /\ ~Answered(m, "admitted")
  <2>1. Bearer(m) /\ answer'[m] = [status |-> "admitted", at |-> now] /\ t \in Alive(tokens)
    BY <1>3, <1>8, WhoAnswers DEF Bearer, Answer
  <2>2. Answered(t, "token") /\ now < answer[t].at + TokenTtl
    BY <2>1 DEF TokensExact, Alive
  <2>. QED
    BY <1>4, <1>5, <1>8, <2>1, <2>2 DEF TokensExact, Answered
<1>9. CASE Answered(m, "unauthorized")' /\ ~Answered(m, "unauthorized")
  <2>1. Bearer(m) /\ answer'[m] = [status |-> "unauthorized", at |-> now]
        /\ t \notin Alive(tokens)
    BY <1>3, <1>9, WhoAnswers DEF Bearer, Answer
  <2>2. Answered(t, "token") => now >= answer[t].at + TokenTtl
    BY <2>1 DEF TokensExact, Alive
  <2>3. Answered(t, "token")' => answer'[t] = answer[t] \/ answer'[t].at = now
    BY <1>7
  <2>. QED
    BY <1>4, <1>7, <1>9, <2>1, <2>2 DEF Answered
<1>10. CASE (Answered(m, "admitted")' => Answered(m, "admitted"))
            /\ (Answered(m, "unauthorized")' => Answered(m, "unauthorized"))
  <2>1. Answered(m, "admitted")' => Earned(t)' /\ answer'[m].at < answer'[t].at + TokenTtl
    BY <1>2, <1>3, <1>5, <1>6, <1>10 DEF AdmissionIsExact
  <2>2. Answered(m, "unauthorized")' =>
          \/ ~Answered(t, "token")'
          \/ answer'[m].at <= answer'[t].at
          \/ answer'[m].at >= answer'[t].at + TokenTtl
    BY <1>2, <1>3, <1>6, <1>7, <1>10 DEF AdmissionIsExact, Answered
  <2>. QED
    BY <1>4, <2>1, <2>2
<1>. QED
  BY <1>8, <1>9, <1>10 DEF Answered

\* What excuses a refusal goes on excusing it.
LEMMA ExcuseStays ==
  ASSUME OIInv, Settled, NEW h \in Calls, ask[h].kind = "redeem", Answered(h, "refused"),
         LateOrTaken(h)
  PROVE  LateOrTaken(h)'
<1>. USE DEF OIInv, OTypeOK
<1>1. PICK c \in Calls : c = ask[h].code
  BY CodeIsACall
<1>2. ask' = ask /\ answer'[h] = answer[h] /\ answer[h].at <= now
  BY StaysTrue DEF Settled
<1>3. Redemptions(c) \subseteq Redemptions(c)'
  BY StaysTrue
<1>4. Answered(c, "code") => answer'[c] = answer[c]
  BY StaysTrue
<1>5. CASE Answered(c, "code")
  BY <1>1, <1>2, <1>3, <1>4, <1>5 DEF LateOrTaken
<1>6. CASE ~Answered(c, "code")
  <2>1. Answered(c, "code")' => answer'[c].at = now
    BY <1>6 DEF Settled, Answered
  <2>. QED
    BY <1>1, <1>2, <2>1 DEF LateOrTaken
<1>. QED
  BY <1>5, <1>6

\* A code that its rightful owner took in time is refused for its URI only.
LEMMA UriRefused ==
  ASSUME OIInv, NEW h \in Calls, ask[h].kind = "redeem", Matches(h), held[h] # {},
         \E code \in held[h] : ~Redeems(h, code)
  PROVE  \/ now >= answer[ask[h].code].at + CodeTtl
         \/ ask[h].uri # Absent /\ ask[h].uri.form = "encoded"
<1>. USE DEF OIInv, OTypeOK
<1>1. PICK c \in Calls : c = ask[h].code
  BY CodeIsACall
<1>2. ~Redeems(h, CodeOf(c))
  BY <1>1 DEF CodesExact
<1>3. SUFFICES ASSUME now <= answer[c].at + CodeTtl,
                      ask[h].uri # Absent => ask[h].uri.form # "encoded"
      PROVE  FALSE
  BY <1>1
<1>4. ask[h].uri # Absent => FromBody(ask[h].uri) = ask[h].uri
  BY <1>3, LoadsAreFormed DEF FromBody
<1>5. ask[h].uri # Absent => FromBody(ask[h].uri) = ask[c].uri
  BY <1>1, <1>4 DEF Matches
<1>6. ask[h].client = ask[c].client
      /\ (ask[c].challenge # Absent => ask[h].verifier = ask[c].challenge)
  BY <1>1 DEF Matches
<1>. QED
  BY <1>2, <1>3, <1>5, <1>6 DEF Redeems, CodeOf, FromQuery

LEMMA RefusalsStep ==
  ASSUME OIInv, ONext
  PROVE  RefusalsExact'
<1>. USE DEF OIInv, OTypeOK
<1>1. Settled
  BY StepSettles
<1>2. SUFFICES ASSUME NEW h \in Calls, ask[h].kind = "redeem", Answered(h, "refused")', Matches(h)
      PROVE  LateOrTaken(h)'
  BY <1>1 DEF RefusalsExact, Settled, Matches
<1>3. CASE Answered(h, "refused")
  BY <1>1, <1>2, <1>3, ExcuseStays DEF RefusalsExact
<1>4. CASE ~Answered(h, "refused")
  <2>1. PICK c \in Calls : c = ask[h].code
    BY <1>2, CodeIsACall
  <2>2. answer'[h] = [status |-> "refused", at |-> now] /\ ask' = ask
    BY <1>1, <1>2, <1>4, WhoAnswers DEF Settled
  <2>3. Redemptions(c) \subseteq Redemptions(c)' /\ Redemptions(c)' \subseteq Calls
    BY <1>1, StaysTrue DEF Redemptions
  <2>4. \/ Answered(c, "code") /\ answer'[c] = answer[c]
        \/ ~Answered(c, "code")' \/ answer'[c].at = now
    BY <1>1, StaysTrue DEF Settled, Answered
  <2>5. \/ ~Answered(c, "code")
        \/ now >= answer[c].at + CodeTtl
        \/ Redemptions(c)' \ {h} # {}
        \/ ask[h].uri # Absent /\ ask[h].uri.form = "encoded"
    <3>1. CASE VerifyClient(h)
      <4>1. ~Verified(ask[h].client, ask[h].secret)
        BY <1>2, <1>4, <3>1 DEF VerifyClient, Answered
      <4>2. ~Known(ask[c].client)
        BY <1>2, <2>1, <4>1 DEF Matches, Verified
      <4>. QED
        BY <4>2 DEF CodesExact
    <3>2. CASE TakeCode(h)
      <4>1. step[h] = "take" /\ c \notin DOMAIN codes
        BY <1>2, <1>4, <2>1, <3>2 DEF TakeCode, Answered, Goto
      <4>2. h \notin Redemptions(c)
        BY <4>1 DEF StepsFit, Redemptions
      <4>. QED
        BY <2>3, <4>1, <4>2 DEF CodesExact
    <3>3. CASE CheckCode(h)
      <4>1. step[h] = "check" /\ \E code \in held[h] : ~Redeems(h, code)
        BY <1>2, <1>4, <3>3 DEF CheckCode, Answered, Goto
      <4>. QED
        BY <1>2, <2>1, <4>1, UriRefused DEF StepsFit
    <3>4. ~CheckClient(h)
      BY <1>2 DEF CheckClient, At
    <3>. QED
      BY <1>2, <1>4, <3>1, <3>2, <3>3, <3>4, WhoAnswers
  <2>. QED
    BY <2>1, <2>2, <2>4, <2>5 DEF LateOrTaken
<1>. QED
  BY <1>3, <1>4

-----------------------------------------------------------------------------
(* The theorems                                                            *)

\* OIInv is an invariant of the OAuth2 server.
THEOREM OAuth2Invariant == OSpec => []OIInv
<1>1. OIInv /\ [ONext]_ovars => OIInv'
  <2>. SUFFICES ASSUME OIInv, [ONext]_ovars PROVE OIInv'
    OBVIOUS
  <2>1. CASE ONext
    BY <2>1, OTypeStep, StepsStep, CodesStep, TokensStep, AdmissionStep, RefusalsStep DEF OIInv
  <2>2. CASE UNCHANGED ovars
    <3>. USE <2>2 DEF ovars, OIInv
    <3>1. OTypeOK' /\ StepsFit'
      BY DEF OTypeOK, StepsFit, Known, Verified, Entitled, Answered
    <3>2. CodesExact' /\ TokensExact'
      BY DEF CodesExact, TokensExact, Redemptions, Known, CodeOf, FromQuery, Earned, Entitled,
             Verified, Answered
    <3>3. AdmissionIsExact' /\ RefusalsExact'
      BY SMTT(30) DEF AdmissionIsExact, RefusalsExact, LateOrTaken, Matches, Redemptions, Known, Earned,
             Entitled, Verified, Answered
    <3>. QED
      BY <3>1, <3>2, <3>3
  <2>. QED
    BY <2>1, <2>2
<1>. QED
  BY <1>1, OInitially, PTL DEF OSpec

\* However many calls to /token overlap between the locks, one code yields one
\* token at most.
THEOREM CodesAreSingleUse == OSpec => []CodeBuysOneToken
<1>1. ASSUME OIInv, NEW code \in Calls
      PROVE  Cardinality(Redemptions(code)) <= 1
  <2>1. CASE Redemptions(code) = {}
    BY <2>1, FS_EmptySet
  <2>2. ASSUME NEW h \in Redemptions(code)
        PROVE  Cardinality(Redemptions(code)) = 1
    <3>1. Redemptions(code) = {h}
      BY <1>1, <2>2 DEF OIInv, CodesExact
    <3>. QED
      BY <3>1, FS_Singleton
  <2>. QED
    BY <2>1, <2>2
<1>2. OIInv => CodeBuysOneToken
  BY <1>1 DEF CodeBuysOneToken
<1>. QED
  BY <1>2, OAuth2Invariant, PTL

\* A request is let in while its token lives and not a moment longer, and only
\* with a token that a registered client earned.
THEOREM AdmissionCorrect == OSpec => []AdmissionIsExact
<1>1. OIInv => AdmissionIsExact
  BY DEF OIInv
<1>. QED
  BY <1>1, OAuth2Invariant, PTL

\* An honest redemption is refused for the four reasons of LateOrTaken alone.
THEOREM HonestCorrect == OSpec => []HonestIsServed
<1>1. OIInv => HonestIsServed
  BY DEF OIInv, RefusalsExact, HonestIsServed, Honest
<1>. QED
  BY <1>1, OAuth2Invariant, PTL

-----------------------------------------------------------------------------
(* The front door, for any configurations, any requests and any size of a  *)
(* batch: what the headers of an answer are, action by action.             *)

LEMMA NamesOfOwn ==
  ASSUME NEW N
  PROVE  /\ Names(Own(N)) = N
         /\ \A h \in Own(N) : h.from = 0
<1>1. \A n : Header(n, 0).name = n /\ Header(n, 0).from = 0
  BY DEF Header
<1>. QED
  BY <1>1, Zenon DEF Names, Own

LEMMA AppliedNames ==
  ASSUME NEW N, NEW n, n \notin CustomNames
  PROVE  n \in Names(ApplyCustom(Own(N))) <=> n \in N
<1>1. \A i \in LastOfName : Custom(i).name \in CustomNames
  BY DEF LastOfName, Custom, CustomNames, Header
<1>2. n \in Names(ApplyCustom(Own(N))) <=> n \in Names(Own(N))
  BY <1>1, Zenon DEF Names, ApplyCustom
<1>. QED
  BY <1>2, NamesOfOwn

LEMMA PlacesAreNumbers ==
  ASSUME DoorTypeOK
  PROVE  DOMAIN door.custom \subseteq Nat \ {0}
<1>1. door.custom \in Seq(STRING)
  BY DoorsAreConfigurations DEF DoorTypeOK
<1>. QED
  BY <1>1

LEMMA AppliedOnce ==
  ASSUME DoorTypeOK, NEW hs, NEW i \in LastOfName
  PROVE  {h \in ApplyCustom(hs) : h.name = door.custom[i]} = {Custom(i)}
<1>1. \A j : Custom(j).name = door.custom[j]
  BY DEF Custom, Header
<1>2. door.custom[i] \in CustomNames
  BY DEF LastOfName, CustomNames
<1>3. ASSUME NEW j \in LastOfName, door.custom[j] = door.custom[i] PROVE Custom(j) = Custom(i)
  <2>1. i \in DOMAIN door.custom /\ j \in DOMAIN door.custom /\ i <= j /\ j <= i
    BY <1>3, Zenon DEF LastOfName
  <2>2. i \in Nat /\ j \in Nat
    BY <2>1, PlacesAreNumbers, Zenon
  <2>3. i = j
    BY <2>1, <2>2
  <2>. QED
    BY <2>3
<1>. QED
  BY <1>1, <1>2, <1>3, Zenon DEF ApplyCustom

\* The headers of the gateway's own are none of the custom ones.
LEMMA OwnBearsNone ==
  ASSUME NEW N
  PROVE  ~(\E h \in Own(N) : h.from # 0)
  BY NamesOfOwn

LEMMA WhoIsAllowed ==
  ASSUME NEW origin, NEW added
  PROVE  /\ "Access-Control-Allow-Origin" \in Granting(origin, {}) <=> Permitted(origin)
         /\ GrantHeaders \subseteq
              Granting(origin, {"Access-Control-Allow-Methods", "Access-Control-Allow-Headers",
                                "Access-Control-Max-Age"}) <=> Permitted(origin)
         /\ "Access-Control-Allow-Origin" \in
              Granting(origin, {"Access-Control-Allow-Methods", "Access-Control-Allow-Headers",
                                "Access-Control-Max-Age"}) <=> Permitted(origin)
  BY DEF Granting, OriginAllowed, Expose, Permitted, GrantHeaders

\* A request that is not the page's is its preflight.
LEMMA PreflightOnly ==
  ASSUME DoorTypeOK
  PROVE  /\ request.origin = page.origin /\ request.path = page.path
         /\ request # page => request.method = "OPTIONS" /\ ~request.token
  BY PagesAreRequests DEF DoorTypeOK, Preflight, NeedsPreflight

-----------------------------------------------------------------------------
AreHeaders(hs) == hs \subseteq [name : OwnNames \cup CustomNames, from : Nat]

LEMMA HeaderTypes ==
  ASSUME DoorTypeOK, NEW N \in SUBSET OwnNames
  PROVE  /\ AreHeaders(Own(N)) /\ AreHeaders(ApplyCustom(Own(N)))
         /\ AreHeaders(Own(N) \cup {Custom(i) : i \in DOMAIN door.custom})
         /\ AreHeaders(Own(N) \cup ApplyCustom({}))
<1>1. \A i \in DOMAIN door.custom : Custom(i) \in [name : OwnNames \cup CustomNames, from : Nat]
  <2>1. \A i \in DOMAIN door.custom : i \in Nat
    BY PlacesAreNumbers
  <2>2. \A i \in DOMAIN door.custom : door.custom[i] \in OwnNames \cup CustomNames
    BY Zenon DEF CustomNames
  <2>. QED
    BY <2>1, <2>2 DEF Custom, Header
<1>2. \A n \in N : Header(n, 0) \in [name : OwnNames \cup CustomNames, from : Nat]
  BY DEF Header
<1>3. AreHeaders(Own(N))
  BY <1>2, Zenon DEF Own, AreHeaders
<1>4. \A i \in LastOfName : i \in DOMAIN door.custom
  BY DEF LastOfName
<1>. QED
  BY <1>1, <1>3, <1>4, Zenon DEF AreHeaders, ApplyCustom

LEMMA NamesAreOwn ==
  ASSUME NEW origin
  PROVE  /\ Granting(origin, {}) \in SUBSET OwnNames
         /\ Granting(origin, {"Access-Control-Allow-Methods", "Access-Control-Allow-Headers",
                              "Access-Control-Max-Age"}) \in SUBSET OwnNames
  BY DEF Granting, Expose, OwnNames, GrantHeaders

\* What the two properties say of an answer.
RightGrant(by, status, headers) ==
  CustomNames \cap GrantHeaders = {} =>
    /\ request # page =>
         (status \in 200..299 /\ GrantHeaders \subseteq Names(headers)
            <=> Permitted(page.origin) /\ (~Streamable => page.path # "health"))
    /\ by # "closed" =>
         ("Access-Control-Allow-Origin" \in Names(headers)
            <=> /\ Permitted(request.origin)
                /\ ~Streamable => by \notin {"oauth", "full", "raw", "upgrade"})

RightCustom(by, status, headers) ==
  LET res == [by |-> by, status |-> status, headers |-> headers]
  IN  Wanted(res) \/ Bears(res) =>
        \A i \in LastOfName :
          /\ Custom(i) \in headers
          /\ {h \in headers : h.name = door.custom[i]} = {Custom(i)} \/ Joined(res)

\* What apply_custom_headers() makes is right wherever it is used.
LEMMA AppliedIsRight ==
  ASSUME DoorTypeOK, NEW by, NEW status, NEW hs
  PROVE  RightCustom(by, status, ApplyCustom(hs))
<1>1. ASSUME NEW i \in LastOfName
      PROVE  /\ {h \in ApplyCustom(hs) : h.name = door.custom[i]} = {Custom(i)}
             /\ Custom(i) \in ApplyCustom(hs)
  BY AppliedOnce
<1>. QED
  BY <1>1, Zenon DEF RightCustom

\* And so are the gateway's own headers where nobody asks for others.
LEMMA OwnIsRight ==
  ASSUME NEW by, NEW status, NEW N, by \notin {"health", "upgrade"},
         Streamable \/ by \notin {"options", "stream", "mcp"}
  PROVE  RightCustom(by, status, Own(N))
<1>. DEFINE res == [by |-> by, status |-> status, headers |-> Own(N)]
<1>1. Streamable => door.kind \notin {"sse", "ws"}
  BY DEF Streamable
<1>2. res.by = by /\ res.status = status /\ res.headers = Own(N)
  OBVIOUS
<1>. HIDE DEF res
<1>3. ~Wanted(res)
  BY <1>1, <1>2 DEF Wanted
<1>4. ~Bears(res)
  BY <1>2, OwnBearsNone, Zenon DEF Bears
<1>. QED
  BY <1>3, <1>4, Zenon DEF RightCustom, res

Makers == {"options", "closed", "health", "oauth", "mcp", "stream", "full", "raw", "upgrade"}

LEMMA RightReplies ==
  ASSUME DoorIInv, NEW by \in Makers, NEW status \in Nat, NEW headers, AreHeaders(headers),
         Reply(by, status, headers), RightGrant(by, status, headers), RightCustom(by, status, headers)
  PROVE  DoorIInv'
<1>1. /\ response' = [by |-> by, status |-> status, headers |-> headers]
      /\ UNCHANGED <<door, page, request, stage, refused, written>>
  BY DEF Reply
<1>2. response'.by = by /\ response'.status = status /\ response'.headers = headers
  BY <1>1
<1>3. DoorTypeOK'
  BY <1>1 DEF DoorIInv, DoorTypeOK, AreHeaders, Makers, NeedsPreflight, Preflight, CustomNames
<1>4. PassedFits'
  BY <1>1 DEF DoorIInv, PassedFits, Streamable
<1>a. door' = door /\ page' = page /\ request' = request
  BY <1>1
<1>b. CustomNames' = CustomNames /\ (Streamable <=> Streamable')
  BY <1>a DEF CustomNames, Streamable
<1>c. /\ Permitted(page.origin)' <=> Permitted(page.origin)
      /\ Permitted(request.origin)' <=> Permitted(request.origin)
  BY <1>a DEF Permitted
<1>d. LastOfName' = LastOfName /\ CorsHeaders' = CorsHeaders
  BY <1>a DEF LastOfName, CorsHeaders, Granting, OriginAllowed, Expose
<1>e. \A i : Custom(i)' = Custom(i)
  BY <1>a DEF Custom
<1>f. /\ Grants' <=> status \in 200..299 /\ GrantHeaders \subseteq Names(headers)
      /\ Readable' <=> "Access-Control-Allow-Origin" \in Names(headers)
  BY <1>2 DEF Grants, Readable, Names
<1>5. CorsIsExact'
  BY <1>a, <1>b, <1>c, <1>f, <1>2, Zenon DEF RightGrant, CorsIsExact
<1>6. CustomAsAsked'
  <2>. DEFINE res == [by |-> by, status |-> status, headers |-> headers]
  <2>1. /\ (Wanted(res) \/ Bears(res))' <=> Wanted(res) \/ Bears(res)
        /\ Joined(res)' <=> Joined(res)
    BY <1>a, <1>b DEF Wanted, Bears, Joined
  <2>2. response' = res
    BY <1>1
  <2>. HIDE DEF res
  <2>. QED
    BY <1>a, <1>d, <1>e, <1>2, <2>1, <2>2, Zenon DEF RightCustom, CustomAsAsked, res
<1>. QED
  BY <1>3, <1>4, <1>5, <1>6 DEF DoorIInv

LEMMA PassedOn ==
  ASSUME DoorIInv, PassOn, stage \in 1..4, response = NoResponse, PassedFits'
  PROVE  DoorIInv'
<1>1. stage' = stage + 1 /\ UNCHANGED <<door, page, request, response, refused, written>>
  BY DEF PassOn
<1>2. DoorTypeOK'
  BY <1>1 DEF DoorIInv, DoorTypeOK, NeedsPreflight, Preflight, CustomNames
<1>3. CorsIsExact' /\ CustomAsAsked'
  BY <1>1 DEF CorsIsExact, CustomAsAsked, Wanted, Bears, Responded, NoResponse
<1>. QED
  BY <1>2, <1>3 DEF DoorIInv

\* The preflight of a page that may not be let in is the only one that comes
\* past the stage of OPTIONS.
LEMMA LaterIsRight ==
  ASSUME DoorIInv, stage > 2, NEW by, NEW status, NEW headers, by # "closed",
         CustomNames \cap GrantHeaders = {} =>
           ("Access-Control-Allow-Origin" \in Names(headers)
              <=> /\ Permitted(request.origin)
                  /\ ~Streamable => by \notin {"oauth", "full", "raw", "upgrade"})
  PROVE  RightGrant(by, status, headers)
<1>1. request # page => door.cors = "off"
  BY PreflightOnly DEF DoorIInv, PassedFits, DoorTypeOK
<1>2. door.cors = "off" => ~Permitted(page.origin) /\ ~Permitted(request.origin)
  BY DEF Permitted
<1>3. "Access-Control-Allow-Origin" \in GrantHeaders
  BY DEF GrantHeaders
<1>. QED
  BY <1>1, <1>2, <1>3, Zenon DEF RightGrant

LEMMA BuiltIsRight ==
  ASSUME DoorIInv, stage > 2, NEW by \in {"mcp", "stream"}, NEW status \in Nat,
         NEW N \in SUBSET OwnNames, Built(by, status, N),
         "Access-Control-Allow-Origin" \in N <=> Permitted(request.origin),
         Streamable => by = "mcp"
  PROVE  DoorIInv'
<1>. DEFINE hs == IF Streamable THEN Own(N) ELSE ApplyCustom(Own(N))
<1>1. DoorTypeOK /\ by \in Makers
  BY DEF DoorIInv, Makers
<1>2. AreHeaders(hs)
  BY <1>1, HeaderTypes
<1>3. CustomNames \cap GrantHeaders = {} =>
        ("Access-Control-Allow-Origin" \in Names(hs) <=> Permitted(request.origin))
  BY NamesOfOwn, AppliedNames DEF GrantHeaders
<1>4. by \notin {"oauth", "full", "raw", "upgrade", "closed"}
  OBVIOUS
<1>5. RightGrant(by, status, hs)
  <2>. HIDE DEF hs
  <2>. QED
    BY <1>3, <1>4, LaterIsRight
<1>6. RightCustom(by, status, hs)
  BY <1>1, AppliedIsRight, OwnIsRight
<1>7. Reply(by, status, hs)
  BY DEF Built
<1>. HIDE DEF hs
<1>. QED
  BY <1>1, <1>2, <1>5, <1>6, <1>7, RightReplies

\* An answer with only headers of the gateway's own.
LEMMA PlainIsRight ==
  ASSUME DoorIInv, stage > 2, NEW by \in {"oauth", "full", "raw"}, NEW status \in Nat,
         NEW N \in SUBSET OwnNames, Reply(by, status, Own(N)),
         "Access-Control-Allow-Origin" \in N <=> Streamable /\ Permitted(request.origin)
  PROVE  DoorIInv'
<1>1. DoorTypeOK /\ by \in Makers /\ by # "closed"
  BY DEF DoorIInv, Makers
<1>2. AreHeaders(Own(N))
  BY <1>1, HeaderTypes
<1>3. CustomNames \cap GrantHeaders = {} =>
        ("Access-Control-Allow-Origin" \in Names(Own(N))
           <=> /\ Permitted(request.origin)
               /\ ~Streamable => by \notin {"oauth", "full", "raw", "upgrade"})
  BY NamesOfOwn
<1>4. RightGrant(by, status, Own(N))
  BY <1>1, <1>3, LaterIsRight, Zenon
<1>5. by \notin {"options", "health", "stream", "mcp", "upgrade"}
  OBVIOUS
<1>6. RightCustom(by, status, Own(N))
  BY <1>5, OwnIsRight
<1>. QED
  BY <1>1, <1>2, <1>4, <1>6, RightReplies

LEMMA NothingIsRight ==
  ASSUME DoorIInv, stage > 2, NEW by \in {"full", "raw"}, NEW status \in Nat,
         ~Streamable, Reply(by, status, {})
  PROVE  DoorIInv'
<1>1. Own({}) = {}
  BY DEF Own
<1>. QED
  BY <1>1, PlainIsRight

\* Where a request is when a stage is its next.
LEMMA StageIs ==
  ASSUME DoorTypeOK
  PROVE  /\ AtStage("options") => stage = (IF Streamable THEN 1 ELSE 2)
         /\ AtStage("health") => stage = (IF Streamable THEN 2 ELSE 1)
         /\ AtStage("oauth") => stage = 3
         /\ AtStage("mcp") => stage = 4
         /\ AtStage("write") => stage = 5
         /\ \A s : AtStage(s) => response = NoResponse
  BY DEF DoorTypeOK, AtStage, Stages

-----------------------------------------------------------------------------
\* One lemma per action.
LEMMA OptionsStep == DoorIInv /\ Options => DoorIInv'
<1> SUFFICES ASSUME DoorIInv, Options PROVE DoorIInv'
  OBVIOUS
<1>1. /\ DoorTypeOK /\ PassedFits /\ response = NoResponse
      /\ stage = (IF Streamable THEN 1 ELSE 2)
  BY StageIs DEF DoorIInv, Options
<1>2. CASE request.method = "OPTIONS" /\ door.cors # "off" /\ Built("options", 204, PreflightHeaders)
  <2>. DEFINE hs == IF Streamable THEN Own(PreflightHeaders) ELSE ApplyCustom(Own(PreflightHeaders))
  <2>1. Reply("options", 204, hs)
    BY <1>2 DEF Built
  <2>2. AreHeaders(hs)
    BY <1>1, NamesAreOwn, HeaderTypes DEF PreflightHeaders
  <2>3. ~Streamable => page.path # "health"
    BY <1>1, PreflightOnly DEF PassedFits
  <2>4. CustomNames \cap GrantHeaders = {} => \A n \in GrantHeaders : n \in Names(hs) <=> n \in PreflightHeaders
    BY NamesOfOwn, AppliedNames
  <2>5. request.origin = page.origin
    BY <1>1, PreflightOnly
  <2>6. /\ GrantHeaders \subseteq PreflightHeaders <=> Permitted(request.origin)
        /\ "Access-Control-Allow-Origin" \in PreflightHeaders <=> Permitted(request.origin)
    BY WhoIsAllowed DEF PreflightHeaders
  <2>7. RightGrant("options", 204, hs)
    <3>. HIDE DEF hs
    <3>1. "Access-Control-Allow-Origin" \in GrantHeaders
      BY DEF GrantHeaders
    <3>2. 204 \in 200..299
      OBVIOUS
    <3>3. "options" \notin {"oauth", "full", "raw", "upgrade"}
      OBVIOUS
    <3>. QED
      BY <2>3, <2>4, <2>5, <2>6, <3>1, <3>2, <3>3, Zenon DEF RightGrant
  <2>8. RightCustom("options", 204, hs)
    BY <1>1, AppliedIsRight, OwnIsRight
  <2>9. "options" \in Makers /\ 204 \in Nat
    BY DEF Makers
  <2>. HIDE DEF hs
  <2>. QED
    BY <2>1, <2>2, <2>7, <2>8, <2>9, RightReplies, Zenon
<1>3. CASE request.method = "OPTIONS" /\ door.cors = "off" /\ ~Streamable /\ Reply("closed", 0, {})
  <2>1. AreHeaders({})
    BY DEF AreHeaders
  <2>2. RightGrant("closed", 0, {})
    BY <1>3 DEF RightGrant, Permitted
  <2>3. RightCustom("closed", 0, {})
    <3>1. Own({}) = {}
      BY DEF Own
    <3>2. "closed" \notin {"health", "upgrade", "options", "stream", "mcp"}
      OBVIOUS
    <3>. QED
      BY <3>1, <3>2, OwnIsRight
  <2>4. "closed" \in Makers /\ 0 \in Nat
    BY DEF Makers
  <2>. QED
    BY <1>3, <2>1, <2>2, <2>3, <2>4, RightReplies, Zenon
<1>4. CASE (request.method = "OPTIONS" => door.cors = "off" /\ Streamable) /\ PassOn
  <2>1. PassedFits'
    BY <1>1, <1>4 DEF PassedFits, PassOn, Streamable
  <2>2. stage \in 1..4
    BY <1>1
  <2>. QED
    BY <1>1, <1>4, <2>1, <2>2, PassedOn, Zenon
<1>. QED
  BY <1>2, <1>3, <1>4, Zenon DEF Options

LEMMA HealthStep == DoorIInv /\ Health => DoorIInv'
<1> SUFFICES ASSUME DoorIInv, Health PROVE DoorIInv'
  OBVIOUS
<1>. DEFINE N == {"Content-Type"} \cup CorsHeaders
            hs == IF Streamable THEN Own(N) \cup ApplyCustom({}) ELSE ApplyCustom(Own(N))
<1>1. /\ DoorTypeOK /\ PassedFits /\ response = NoResponse
      /\ stage = (IF Streamable THEN 2 ELSE 1)
  BY StageIs DEF DoorIInv, Health
<1>2. CASE request.path = "health" /\ Reply("health", 200, hs)
  <2>1. N \in SUBSET OwnNames
    BY NamesAreOwn DEF CorsHeaders, OwnNames
  <2>2. AreHeaders(hs)
    <3>. HIDE DEF N
    <3>. QED
      BY <1>1, <2>1, HeaderTypes
  <2>3. ASSUME CustomNames \cap GrantHeaders = {}, NEW n \in GrantHeaders
        PROVE  n \in Names(hs) <=> n \in N
    <3>. HIDE DEF N
    <3>1. n \notin CustomNames
      BY <2>3
    <3>2. n \in Names(ApplyCustom(Own(N))) <=> n \in N
      BY <3>1, AppliedNames
    <3>3. n \notin Names(ApplyCustom({}))
      <4>1. Own({}) = {}
        BY DEF Own
      <4>. QED
        BY <3>1, <4>1, AppliedNames
    <3>4. Names(Own(N) \cup ApplyCustom({})) = Names(Own(N)) \cup Names(ApplyCustom({}))
      BY Zenon DEF Names
    <3>5. Names(Own(N)) = N
      BY NamesOfOwn
    <3>. QED
      BY <3>2, <3>3, <3>4, <3>5
  <2>4. /\ "Access-Control-Allow-Origin" \in N <=> Permitted(request.origin)
        /\ "Access-Control-Allow-Methods" \notin N
    BY WhoIsAllowed DEF CorsHeaders, Granting, Expose
  <2>5. {"Access-Control-Allow-Origin", "Access-Control-Allow-Methods"} \subseteq GrantHeaders
    BY DEF GrantHeaders
  <2>6. /\ request # page /\ Streamable => ~Permitted(page.origin)
        /\ ~Streamable => page.path = "health"
    BY <1>1, <1>2, PreflightOnly DEF PassedFits, Permitted
  <2>7. RightGrant("health", 200, hs)
    <3>. HIDE DEF hs, N
    <3>1. "health" \notin {"oauth", "full", "raw", "upgrade"}
      OBVIOUS
    <3>. QED
      BY <2>3, <2>4, <2>5, <2>6, <3>1, Zenon DEF RightGrant
  <2>8. ASSUME Streamable
        PROVE  RightCustom("health", 200, Own(N) \cup ApplyCustom({}))
    <3>. HIDE DEF N
    <3>. DEFINE res == [by |-> "health", status |-> 200, headers |-> Own(N) \cup ApplyCustom({})]
    <3>1. \A i \in LastOfName : Custom(i) \in Own(N) \cup ApplyCustom({})
      BY Zenon DEF ApplyCustom
    <3>2. Joined(res)
      BY <2>8 DEF Joined
    <3>. QED
      BY <3>1, <3>2, Zenon DEF RightCustom
  <2>9. RightCustom("health", 200, hs)
    <3>. HIDE DEF N
    <3>. QED
      BY <1>1, <2>8, AppliedIsRight
  <2>10. "health" \in Makers /\ 200 \in Nat
    BY DEF Makers
  <2>. HIDE DEF hs
  <2>. QED
    BY <1>2, <2>2, <2>7, <2>9, <2>10, RightReplies, Zenon
<1>3. CASE request.path # "health" /\ PassOn
  <2>1. PassedFits'
    BY <1>1, <1>3 DEF PassedFits, PassOn, Streamable
  <2>2. stage \in 1..4
    BY <1>1
  <2>. QED
    BY <1>1, <1>3, <2>1, <2>2, PassedOn, Zenon
<1>. QED
  BY <1>2, <1>3, Zenon DEF Health

LEMMA OAuthStep == DoorIInv /\ OAuth => DoorIInv'
<1> SUFFICES ASSUME DoorIInv, OAuth PROVE DoorIInv'
  OBVIOUS
<1>. DEFINE With(names) == names \cup (IF Streamable THEN CorsHeaders ELSE {})
            NoStore == {"Content-Type", "Cache-Control"}
            Refused == NoStore \cup {"WWW-Authenticate"}
<1>1. DoorTypeOK /\ PassedFits /\ response = NoResponse /\ stage = 3
  BY StageIs DEF DoorIInv, OAuth
<1>2. "Access-Control-Allow-Origin" \in CorsHeaders <=> Permitted(request.origin)
  BY WhoIsAllowed DEF CorsHeaders
<1>3. CorsHeaders \in SUBSET OwnNames
  BY NamesAreOwn DEF CorsHeaders
<1>4. /\ With(NoStore) \in SUBSET OwnNames /\ With(Refused) \in SUBSET OwnNames
      /\ "Access-Control-Allow-Origin" \in With(NoStore) <=> Streamable /\ Permitted(request.origin)
      /\ "Access-Control-Allow-Origin" \in With(Refused) <=> Streamable /\ Permitted(request.origin)
  BY <1>2, <1>3 DEF OwnNames
<1>5. CASE Reply("oauth", 200, Own(With(NoStore)))
  BY <1>1, <1>4, <1>5, PlainIsRight
<1>6. CASE Reply("oauth", 401, Own(With(Refused)))
  BY <1>1, <1>4, <1>6, PlainIsRight
<1>7. CASE PassOn
  <2>1. PassedFits'
    BY <1>1, <1>7 DEF PassedFits, PassOn, Streamable
  <2>. QED
    BY <1>1, <1>7, <2>1, PassedOn
<1>. QED
  BY <1>5, <1>6, <1>7, Zenon DEF OAuth

\* The headers of an answer of the MCP side.
LEMMA McpHeaders ==
  /\ CorsHeaders \in SUBSET OwnNames
  /\ "Access-Control-Allow-Origin" \in CorsHeaders <=> Permitted(request.origin)
  /\ {"Content-Type"} \cup CorsHeaders \in SUBSET OwnNames
  /\ "Access-Control-Allow-Origin" \in {"Content-Type"} \cup CorsHeaders <=> Permitted(request.origin)
  /\ {"Content-Type", "Mcp-Session-Id"} \cup CorsHeaders \in SUBSET OwnNames
  /\ "Access-Control-Allow-Origin" \in {"Content-Type", "Mcp-Session-Id"} \cup CorsHeaders
       <=> Permitted(request.origin)
<1>1. CorsHeaders \in SUBSET OwnNames
  BY NamesAreOwn DEF CorsHeaders
<1>2. "Access-Control-Allow-Origin" \in CorsHeaders <=> Permitted(request.origin)
  BY WhoIsAllowed DEF CorsHeaders
<1>3. "Content-Type" \in OwnNames /\ "Mcp-Session-Id" \in OwnNames
  BY DEF OwnNames
<1>. HIDE DEF CorsHeaders
<1>. QED
  BY <1>1, <1>2, <1>3

\* What build_response() makes, with or without a content type.
LEMMA McpIsRight ==
  ASSUME DoorIInv, stage > 2, NEW status \in Nat,
         \/ Built("mcp", status, CorsHeaders)
         \/ Built("mcp", status, {"Content-Type"} \cup CorsHeaders)
  PROVE  DoorIInv'
<1>1. "mcp" \in {"mcp", "stream"}
  OBVIOUS
<1>. QED
  BY <1>1, McpHeaders, BuiltIsRight, Zenon

LEMMA ErrorsHaveCodes ==
  /\ \A kind, method : \A error \in Errors(kind, method) : StatusCode[error] \in Nat
  /\ StatusCode["PayloadTooLarge"] \in Nat /\ StatusCode["ChildDead"] \in Nat
<1>1. \A error \in Validation \cup SessionErrors \cup
        {"ServiceUnavailable", "ChildDead", "Internal", "NotAcceptable", "BadRequest", "Conflict",
         "MethodNotAllowed", "AutoInitTimeout", "Child"} : StatusCode[error] \in Nat
  BY DEF StatusCode, Validation, SessionErrors
<1>2. ASSUME NEW kind, NEW method
      PROVE  Errors(kind, method) \subseteq Validation \cup SessionErrors \cup
        {"ServiceUnavailable", "ChildDead", "Internal", "NotAcceptable", "BadRequest", "Conflict",
         "MethodNotAllowed", "AutoInitTimeout", "Child"}
  BY DEF Errors
<1>3. StatusCode["PayloadTooLarge"] \in Nat /\ StatusCode["ChildDead"] \in Nat
  BY DEF StatusCode
<1>. QED
  BY <1>1, <1>2, <1>3, Zenon

LEMMA DispatchStep == DoorIInv /\ Dispatch => DoorIInv'
<1> SUFFICES ASSUME DoorIInv, Dispatch PROVE DoorIInv'
  OBVIOUS
<1>1. DoorTypeOK /\ Streamable /\ stage = 4 /\ stage > 2
  BY StageIs DEF DoorIInv, Dispatch
<1>2. CASE \E status \in Nat : \/ Built("mcp", status, CorsHeaders)
                               \/ Built("mcp", status, {"Content-Type"} \cup CorsHeaders)
  BY <1>1, <1>2, McpIsRight
<1>3. CASE Reply("stream", 200, ApplyCustom(Own({"Content-Type", "Mcp-Session-Id"} \cup CorsHeaders)))
  <2>. DEFINE N == {"Content-Type", "Mcp-Session-Id"} \cup CorsHeaders
  <2>1. N \in SUBSET OwnNames /\ ("Access-Control-Allow-Origin" \in N <=> Permitted(request.origin))
    BY McpHeaders
  <2>. HIDE DEF N
  <2>2. AreHeaders(ApplyCustom(Own(N)))
    BY <1>1, <2>1, HeaderTypes
  <2>3. CustomNames \cap GrantHeaders = {} =>
          ("Access-Control-Allow-Origin" \in Names(ApplyCustom(Own(N))) <=> Permitted(request.origin))
    BY <2>1, AppliedNames DEF GrantHeaders
  <2>4. "stream" \notin {"oauth", "full", "raw", "upgrade", "closed"}
    OBVIOUS
  <2>5. RightGrant("stream", 200, ApplyCustom(Own(N)))
    BY <1>1, <2>3, <2>4, LaterIsRight
  <2>6. RightCustom("stream", 200, ApplyCustom(Own(N)))
    BY <1>1, AppliedIsRight
  <2>7. "stream" \in Makers /\ 200 \in Nat
    BY DEF Makers
  <2>8. Reply("stream", 200, ApplyCustom(Own(N)))
    BY <1>3 DEF N
  <2>. QED
    BY <2>2, <2>5, <2>6, <2>7, <2>8, RightReplies, Zenon
<1>4. /\ \A error \in Errors(door.kind, request.method) : StatusCode[error] \in Nat
      /\ 200 \in Nat /\ 202 \in Nat /\ 404 \in Nat /\ 405 \in Nat
  BY ErrorsHaveCodes
<1>. QED
  BY <1>2, <1>3, <1>4, Zenon DEF Dispatch

LEMMA SseDispatchStep == DoorIInv /\ SseDispatch => DoorIInv'
<1> SUFFICES ASSUME DoorIInv, SseDispatch PROVE DoorIInv'
  OBVIOUS
<1>1. /\ DoorTypeOK /\ PassedFits /\ ~Streamable /\ stage = 4 /\ stage > 2
      /\ response = NoResponse
  BY StageIs DEF DoorIInv, SseDispatch, Streamable
<1>2. CASE \E status \in Nat : Built("mcp", status, {"Content-Type"} \cup CorsHeaders)
  BY <1>1, <1>2, McpIsRight
<1>3. CASE Built("stream", 200, {"Content-Type"} \cup CorsHeaders)
  <2>1. "stream" \in {"mcp", "stream"} /\ 200 \in Nat
    OBVIOUS
  <2>. QED
    BY <1>1, <1>3, <2>1, McpHeaders, BuiltIsRight, Zenon
<1>4. CASE Reply("full", 503, {}) \/ Reply("raw", 404, {})
  BY <1>1, <1>4, NothingIsRight
<1>5. CASE PassOn
  <2>1. PassedFits'
    BY <1>1, <1>5 DEF PassedFits, PassOn, Streamable
  <2>. QED
    BY <1>1, <1>5, <2>1, PassedOn
<1>6. {400, 503, StatusCode["PayloadTooLarge"]} \subseteq Nat
  BY ErrorsHaveCodes
<1>. QED
  BY <1>2, <1>3, <1>4, <1>5, <1>6, ZenonT(60) DEF SseDispatch

LEMMA WriteStep == DoorIInv /\ WriteMessage => DoorIInv'
<1> SUFFICES ASSUME DoorIInv, WriteMessage PROVE DoorIInv'
  OBVIOUS
<1>1. DoorTypeOK /\ stage = 5 /\ stage > 2 /\ response = NoResponse
  BY StageIs DEF DoorIInv, WriteMessage
<1>2. CASE \E status \in Nat : Built("mcp", status, {"Content-Type"} \cup CorsHeaders)
  BY <1>1, <1>2, McpIsRight
<1>3. CASE written < Batch /\ written' = written + 1
           /\ UNCHANGED <<door, page, request, stage, response, refused>>
  <2>1. DoorTypeOK'
    BY <1>1, <1>3, BatchIsNat DEF DoorTypeOK, NeedsPreflight, Preflight, CustomNames
  <2>2. PassedFits'
    BY <1>3 DEF DoorIInv, PassedFits, Streamable
  <2>3. CorsIsExact' /\ CustomAsAsked'
    BY <1>1, <1>3 DEF CorsIsExact, CustomAsAsked, Wanted, Bears, Responded, NoResponse
  <2>. QED
    BY <2>1, <2>2, <2>3 DEF DoorIInv
<1>4. StatusCode["ChildDead"] \in Nat /\ 202 \in Nat
  BY ErrorsHaveCodes
<1>. QED
  BY <1>2, <1>3, <1>4, Zenon DEF WriteMessage

LEMMA WsDispatchStep == DoorIInv /\ WsDispatch => DoorIInv'
<1> SUFFICES ASSUME DoorIInv, WsDispatch PROVE DoorIInv'
  OBVIOUS
<1>1. DoorTypeOK /\ ~Streamable /\ stage = 4 /\ stage > 2
  BY StageIs DEF DoorIInv, WsDispatch, Streamable
<1>2. CASE Reply("raw", 405, {}) \/ Reply("raw", 400, {}) \/ Reply("full", 503, {})
  BY <1>1, <1>2, NothingIsRight
<1>3. CASE Reply("upgrade", 101, Own(HandshakeHeaders) \cup {Custom(i) : i \in DOMAIN door.custom})
  <2>. DEFINE hs == Own(HandshakeHeaders) \cup {Custom(i) : i \in DOMAIN door.custom}
  <2>1. HandshakeHeaders \in SUBSET OwnNames
    BY DEF OwnNames
  <2>2. AreHeaders(hs)
    BY <1>1, <2>1, HeaderTypes
  <2>3. ASSUME CustomNames \cap GrantHeaders = {}
        PROVE  "Access-Control-Allow-Origin" \notin Names(hs)
    <3>1. Names(hs) = Names(Own(HandshakeHeaders)) \cup Names({Custom(i) : i \in DOMAIN door.custom})
      BY Zenon DEF Names
    <3>2. Names(Own(HandshakeHeaders)) = HandshakeHeaders
      BY NamesOfOwn
    <3>3. \A i : Custom(i).name = door.custom[i]
      BY DEF Custom, Header
    <3>4. Names({Custom(i) : i \in DOMAIN door.custom}) \subseteq CustomNames
      BY <3>3, Zenon DEF Names, CustomNames
    <3>5. "Access-Control-Allow-Origin" \notin CustomNames
      BY <2>3 DEF GrantHeaders
    <3>6. "Access-Control-Allow-Origin" \notin HandshakeHeaders
      BY DEF HandshakeHeaders
    <3>. QED
      BY <3>1, <3>2, <3>4, <3>5, <3>6, Zenon
  <2>4. RightGrant("upgrade", 101, hs)
    <3>. HIDE DEF hs
    <3>1. "upgrade" \in {"oauth", "full", "raw", "upgrade"} /\ "upgrade" # "closed"
      OBVIOUS
    <3>. QED
      BY <1>1, <2>3, <3>1, LaterIsRight, Zenon
  <2>5. RightCustom("upgrade", 101, hs)
    <3>. DEFINE res == [by |-> "upgrade", status |-> 101, headers |-> hs]
    <3>1. \A i \in LastOfName : Custom(i) \in hs
      BY Zenon DEF LastOfName
    <3>2. Joined(res)
      BY DEF Joined
    <3>. HIDE DEF hs
    <3>. QED
      BY <3>1, <3>2, Zenon DEF RightCustom
  <2>6. "upgrade" \in Makers /\ 101 \in Nat
    BY DEF Makers
  <2>. HIDE DEF hs
  <2>7. Reply("upgrade", 101, hs)
    BY <1>3 DEF hs
  <2>. QED
    BY <2>2, <2>4, <2>5, <2>6, <2>7, RightReplies, Zenon
<1>. QED
  BY <1>2, <1>3, Zenon DEF WsDispatch

LEMMA ProceedStep == DoorIInv /\ Proceed => DoorIInv'
<1> SUFFICES ASSUME DoorIInv, Proceed PROVE DoorIInv'
  OBVIOUS
<1>1. DoorTypeOK /\ PassedFits /\ CorsIsExact /\ CustomAsAsked
  BY DEF DoorIInv
<1>2. door' = door /\ page' = page /\ written' = written
  BY DEF Proceed
<1>3. CASE request' = page /\ stage' = 1 /\ response' = NoResponse /\ UNCHANGED refused
  <2>1. DoorTypeOK'
    BY <1>1, <1>2, <1>3 DEF DoorTypeOK, NoResponse, CustomNames
  <2>2. PassedFits'
    BY <1>3 DEF PassedFits
  <2>3. CorsIsExact' /\ CustomAsAsked'
    BY <1>3 DEF CorsIsExact, CustomAsAsked, Wanted, Bears, Responded, NoResponse
  <2>. QED
    BY <2>1, <2>2, <2>3 DEF DoorIInv
<1>4. CASE refused' = TRUE /\ UNCHANGED <<request, stage, response>>
  <2>1. DoorTypeOK'
    BY <1>1, <1>2, <1>4 DEF DoorTypeOK, NeedsPreflight, Preflight, CustomNames
  <2>2. PassedFits'
    BY <1>1, <1>2, <1>4 DEF PassedFits, Streamable
  <2>3. door' = door /\ page' = page /\ request' = request /\ response' = response
    BY <1>2, <1>4
  <2>4. CorsIsExact'
    BY <1>1, <2>3 DEF CorsIsExact, CustomNames, Responded, Grants, Readable, Permitted, Streamable, NoResponse
  <2>5. CustomAsAsked'
    BY <1>1, <2>3 DEF CustomAsAsked, Wanted, Bears, Joined, LastOfName, Custom, Streamable
  <2>. QED
    BY <2>1, <2>2, <2>4, <2>5 DEF DoorIInv
<1>. QED
  BY <1>3, <1>4 DEF Proceed

LEMMA DoorInitially == FInit => DoorIInv
<1> SUFFICES ASSUME FInit PROVE DoorIInv
  OBVIOUS
<1>1. response = NoResponse
  BY DEF FInit
<1>2. DoorTypeOK
  <2>1. /\ door \in Doors /\ page \in Pages
        /\ request = page \/ (NeedsPreflight(page) /\ request = Preflight(page))
    BY Zenon DEF FInit
  <2>2. stage \in 1..5 /\ refused \in BOOLEAN /\ written \in 0..Batch
    <3>1. stage = 1 /\ refused = FALSE /\ written = 0
      BY Zenon DEF FInit
    <3>2. 1 \in 1..5 /\ 0 \in 0..Batch
      BY BatchIsNat
    <3>. QED
      BY <3>1, <3>2, Zenon
  <2>3. response \in [by : {"none", "options", "closed", "health", "oauth", "mcp", "stream",
                            "full", "raw", "upgrade"},
                      status : Nat, headers : SUBSET [name : OwnNames \cup CustomNames, from : Nat]]
    <3>1. response = [by |-> "none", status |-> 0, headers |-> {}]
      BY Zenon DEF FInit, NoResponse
    <3>. QED
      BY <3>1
  <2>. QED
    BY <2>1, <2>2, <2>3, Zenon DEF DoorTypeOK
<1>3. PassedFits
  BY DEF FInit, PassedFits
<1>4. CorsIsExact /\ CustomAsAsked
  BY <1>1 DEF CorsIsExact, CustomAsAsked, Wanted, Bears, Responded, NoResponse
<1>. QED
  BY <1>2, <1>3, <1>4 DEF DoorIInv

\* The invariant of the front door, for any configurations and any requests.
THEOREM DoorInvariant == FSpec => []DoorIInv
<1>1. DoorIInv /\ UNCHANGED fvars => DoorIInv'
  <2> SUFFICES ASSUME DoorIInv, UNCHANGED fvars PROVE DoorIInv'
    OBVIOUS
  <2>1. DoorTypeOK /\ PassedFits /\ CorsIsExact /\ CustomAsAsked
    BY DEF DoorIInv
  <2>2. DoorTypeOK'
    BY <2>1 DEF fvars, DoorTypeOK, NeedsPreflight, Preflight, CustomNames
  <2>3. PassedFits'
    BY <2>1 DEF fvars, PassedFits, Streamable
  <2>4. CorsIsExact'
    BY <2>1 DEF fvars, CorsIsExact, CustomNames, Responded, Grants, Readable, Permitted, Streamable, NoResponse
  <2>5. CustomAsAsked'
    BY <2>1 DEF fvars, CustomAsAsked, Wanted, Bears, Joined, LastOfName, Custom, Streamable
  <2>. QED
    BY <2>2, <2>3, <2>4, <2>5 DEF DoorIInv
<1>2. DoorIInv /\ [FNext]_fvars => DoorIInv'
  BY <1>1, OptionsStep, HealthStep, OAuthStep, DispatchStep, SseDispatchStep, WriteStep,
     WsDispatchStep, ProceedStep, Zenon DEF FNext
<1>. QED
  BY DoorInitially, <1>2, PTL DEF FSpec

\* CORS is exact: in every configuration an allowed page gets through and reads
\* every answer, and no other page does (cors.rs and each gateway's dispatch).
THEOREM CorsCorrect == FSpec => []CorsIsExact
<1>1. DoorIInv => CorsIsExact
  BY DEF DoorIInv
<1>. QED
  BY <1>1, DoorInvariant, PTL

\* The custom headers are where both documents ask for them, and wherever they
\* are each is there once, but for two answers that only add them, for any list
\* of custom headers (apply_custom_headers() and its callers).
THEOREM CustomCorrect == FSpec => []CustomAsAsked
<1>1. DoorIInv => CustomAsAsked
  BY DEF DoorIInv
<1>. QED
  BY <1>1, DoorInvariant, PTL

=============================================================================
