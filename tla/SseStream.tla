------------------------------- MODULE SseStream -------------------------------
(***************************************************************************)
(* SseParser::feed() and process_line() (src/src/client/sse.rs) as they    *)
(* work: incrementally, on the chunks the stream arrives in, with carriage *)
(* returns and ids.  SseParser says what the events of a text are, and is  *)
(* what the two client modes are modelled with.                            *)
(*                                                                         *)
(* The text is the sequence of tokens of SseParser, a "\r" and id lines.   *)
(* retry, comments and unknown fields change no event and are left out.    *)
(***************************************************************************)
EXTENDS SseParser, FiniteSetsExt

CONSTANTS
  Tokens,    \* what a server may send
  MaxText,   \* bound on the text
  MaxChunk   \* bound on a chunk

ASSUME BoundsAreNaturals == {MaxText, MaxChunk} \subseteq Nat

VARIABLES
  sent,    \* all that was fed
  parser,  \* SseParser: line_buf, event_type, data_buf, event_id, last_event_id
  events   \* what feed() returned

pvars == <<sent, parser, events>>

Return == [field |-> "return", value |-> <<>>]
IdLine(id) == [field |-> "id", value |-> id]

NoId == ""
NewParser == [line |-> <<>>, type |-> "", data |-> <<>>, id |-> NoId, last |-> NoId]

PInit ==
  /\ sent = <<>>
  /\ parser = NewParser
  /\ events = <<>>

-----------------------------------------------------------------------------
(* feed()                                                                  *)

First(line, token) ==
  LET at == {i \in DOMAIN line : line[i] = token} IN IF at = {} THEN 0 ELSE Min(at)

\* A "\n" anywhere, or else a "\r" that is not the last thing received.
LineEnd_NoWait(line) ==
  IF First(line, Newline) # 0 THEN First(line, Newline) ELSE First(line, Return)
LineEnd(line) ==
  LET return == First(line, Return) IN
    IF First(line, Newline) # 0 THEN First(line, Newline)
    ELSE IF return < Len(line) THEN return ELSE 0

\* The line before its end, without one "\r" of a "\r\n".
LineBefore(line, end) ==
  LET before == SubSeq(line, 1, end - 1) IN
    IF before # <<>> /\ Last(before) = Return THEN Front(before) ELSE before

\* process_line() for a line that is not blank: the first token is the field,
\* unless a "\r" comes before it.
SetField_LastIdToo(p, line) ==
  CASE line[1].field = "event" -> [p EXCEPT !.type = line[1].value]
    [] line[1].field = "data" -> [p EXCEPT !.data = Append(@, line[1].value)]
    [] line[1].field = "id" -> [p EXCEPT !.id = line[1].value, !.last = line[1].value]
    [] OTHER -> p
SetField(p, line) ==
  CASE line[1].field = "event" -> [p EXCEPT !.type = line[1].value]
    [] line[1].field = "data" -> [p EXCEPT !.data = Append(@, line[1].value)]
    [] line[1].field = "id" -> [p EXCEPT !.id = line[1].value]
    [] OTHER -> p

\* dispatch_event(): without data only the event type is forgotten.
Dispatched(p) ==
  [type |-> IF p.type = "" THEN "message" ELSE p.type, data |-> p.data, id |-> p.id]
AfterDispatch(p) ==
  IF p.data = <<>>
    THEN [p EXCEPT !.type = ""]
    ELSE [p EXCEPT !.type = "", !.data = <<>>, !.id = NoId,
                   !.last = IF p.id = NoId THEN @ ELSE p.id]

\* The loop of feed(): process_line() for the first line, if it is complete.
NextLine(s) ==
  LET p == s.parser
      end == LineEnd(p.line)
      line == LineBefore(p.line, end)
      next == [p EXCEPT !.line = SubSeq(@, end + 1, Len(@))]
  IN  IF end = 0 THEN s
      ELSE IF line # <<>> THEN [parser |-> SetField(next, line), events |-> s.events]
      ELSE [parser |-> AfterDispatch(next),
            events |-> IF p.data = <<>> THEN s.events ELSE Append(s.events, Dispatched(p))]

\* A turn takes a line, so there are no more of them than tokens.
Drained(s) ==
  LET turns == Len(s.parser.line)
      after[k \in 0..turns] == IF k = 0 THEN s ELSE NextLine(after[k - 1])
  IN  after[turns]

FeedChunk(chunk) ==
  LET fed == Drained([parser |-> [parser EXCEPT !.line = @ \o chunk], events |-> events]) IN
    /\ sent' = sent \o chunk
    /\ parser' = fed.parser
    /\ events' = fed.events

PNext ==
  \E n \in 1..Min({MaxChunk, MaxText - Len(sent)}) : \E chunk \in [1..n -> Tokens] : FeedChunk(chunk)

PSpec == PInit /\ [][PNext]_pvars

-----------------------------------------------------------------------------
(* Properties                                                              *)

\* The text with its line ends as "\n".
Normal(text) ==
  LET ends(i) == i < Len(text) /\ text[i + 1] = Newline
  IN  FlattenSeq([i \in DOMAIN text |->
        IF text[i] = Return /\ ends(i) THEN <<>> ELSE <<text[i]>>])

\* The events of a text without carriage returns of their own: what the
\* parser looks for first is a "\n", and where one is further on in the same
\* chunk, a "\r" ends no line.
Proper(text) == \A i \in 1..(Len(text) - 1) : text[i] = Return => text[i + 1] = Newline
Plain(es) == [k \in DOMAIN es |-> [type |-> es[k].type, data |-> es[k].data]]

\* However the stream is cut into chunks, in the middle of a line or between
\* "\r" and "\n", the events are those of the text as a whole.  And
\* Last-Event-ID, with which a client would resume, names an event that was
\* delivered, and none with an id was delivered since.
ChunkingIsInvisible ==
  /\ Proper(sent) => Plain(events) = Feed(<<>>, Normal(sent)).events
  /\ \/ parser.last = NoId /\ \A k \in DOMAIN events : events[k].id = NoId
     \/ \E k \in DOMAIN events :
          /\ events[k].id = parser.last /\ parser.last # NoId
          /\ \A l \in DOMAIN events : l > k => events[l].id = NoId
=============================================================================
