------------------------------ MODULE SseParser ------------------------------
(***************************************************************************)
(* The parser of text/event-stream (src/src/client/sse.rs), as used by     *)
(* both client modes.  The text is a sequence of tokens: a newline, or the *)
(* field with its value that would make up a line.  Where a newline is     *)
(* missing the next token belongs to the value before it, and counts for   *)
(* nothing.  Comments, id and retry make no event and are left out; so is  *)
(* "\r", which servers send before "\n" if at all.                         *)
(*                                                                         *)
(* The parser's state is the text since the last blank line: line_buf, and *)
(* event_type, data_buf and has_data, which follow from the complete lines *)
(* before it.                                                              *)
(***************************************************************************)
EXTENDS Naturals, Sequences, SequencesExt

Newline == [field |-> "newline", value |-> <<>>]
EventLine(type) == [field |-> "event", value |-> type]
DataLine(data) == [field |-> "data", value |-> data]

\* An event as a server writes it, and the same without the blank line.
Unfinished(type, data) == <<EventLine(type), Newline, DataLine(data), Newline>>
Text(type, data) == Append(Unfinished(type, data), Newline)

StartsLine(text, i) == i = 1 \/ text[i - 1] = Newline

BlankLine(text, i) == text[i] = Newline /\ StartsLine(text, i)

\* process_line(): the values that the lines of a block give a field.
Values(block, field) ==
  FlattenSeq([i \in DOMAIN block |->
    IF block[i].field = field /\ StartsLine(block, i) THEN <<block[i].value>> ELSE <<>>])

\* event_type: the last line counts, and one without a value is no type.
TypeIn(block) ==
  LET types == Values(block, "event") IN IF types = <<>> THEN "" ELSE Last(types)

\* dispatch_event(): a block without data makes no event.
EventOf(block) ==
  LET type == TypeIn(block)
      data == Values(block, "data")
  IN  IF data = <<>> THEN <<>>
      ELSE <<[type |-> IF type = "" THEN "message" ELSE type, data |-> data]>>

\* The lines between place i and the blank line before it.
BlockBefore(text, i) ==
  LET start == CHOOSE b \in 0..(i - 1) :
                 /\ b > 0 => BlankLine(text, b)
                 /\ \A j \in (b + 1)..(i - 1) : ~BlankLine(text, j)
  IN  SubSeq(text, start + 1, i - 1)

\* feed(): the events that are complete now, and the text left over.
Feed(rest, chunk) ==
  LET text == rest \o chunk IN
    [events |-> FlattenSeq([i \in DOMAIN text |->
                  IF BlankLine(text, i) THEN EventOf(BlockBefore(text, i)) ELSE <<>>]),
     rest |-> BlockBefore(text, Len(text) + 1)]

\* parse_line() of an event's data, which is one JSON value: one line, here.
JsonOf(data) == IF Len(data) = 1 THEN data[1] ELSE <<>>
=============================================================================
