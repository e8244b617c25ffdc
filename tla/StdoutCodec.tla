------------------------------ MODULE StdoutCodec ------------------------------
(***************************************************************************)
(* StdoutCodec (src/src/codec.rs): the child's stdout cut into lines, and  *)
(* the lines into messages.  A byte is a line feed, a carriage return, a   *)
(* space, a part of a message that is complete by itself, something else,  *)
(* or no UTF-8.  What fill_buf() returns is what the pipe holds: any cut   *)
(* of the stream.  A fatal error is the last read: the caller kills the    *)
(* child.                                                                  *)
(***************************************************************************)
EXTENDS Naturals, Sequences, SequencesExt, FiniteSetsExt

CONSTANTS
  MaxMessage,  \* MAX_MESSAGE_SIZE
  MaxBuffer,   \* max_buffer: DEFAULT_PARTIAL_BUFFER
  MaxOutput    \* bound on what the child prints

ASSUME CodecLimits == {MaxMessage, MaxOutput} \subseteq Nat /\ MaxBuffer \in Nat \ {0}

VARIABLES
  printed,    \* all the bytes the child printed
  closed,     \* it will print no more
  available,  \* of these, what fill_buf() holds
  buf,        \* the line so far
  messages,   \* what read_message() returned
  decodeErrors,
  outcome     \* "reading", or how it ended

xvars == <<printed, closed, available, buf, messages, decodeErrors, outcome>>

Bytes == {"lf", "cr", "space", "message", "junk", "invalid"}

XInit ==
  /\ printed = <<>>
  /\ closed = FALSE
  /\ available = <<>>
  /\ buf = <<>>
  /\ messages = 0
  /\ decodeErrors = 0
  /\ outcome = "reading"

-----------------------------------------------------------------------------
(* read_message() for a line                                               *)

Stripped(line) == IF line # <<>> /\ Last(line) = "cr" THEN Front(line) ELSE line

Blank(line) == Range(line) \subseteq {"cr", "space"}
Invalid(line) == "invalid" \in Range(line)
TooLong_OffByOne(line) == Len(Stripped(line)) >= MaxMessage
TooLong(line) == Len(Stripped(line)) > MaxMessage

\* parse_line(): one value, with whitespace around it.
Parses(line) ==
  /\ Cardinality({i \in DOMAIN line : line[i] \notin {"cr", "space"}}) = 1
  /\ "message" \in Range(line)

HandleLine(line) ==
  /\ messages' = messages +
       (IF ~Blank(line) /\ ~Invalid(line) /\ ~TooLong(line) /\ Parses(line) THEN 1 ELSE 0)
  /\ decodeErrors' = decodeErrors +
       (IF ~Blank(line) /\ (Invalid(line) \/ TooLong(line) \/ ~Parses(line)) THEN 1 ELSE 0)
  /\ outcome' = IF Invalid(line) THEN "InvalidUtf8" ELSE "reading"

-----------------------------------------------------------------------------
(* read_line_raw()                                                         *)

Overflows_Later(size) == size > MaxBuffer
Overflows(size) == size >= MaxBuffer

Overflow ==
  /\ outcome' = "BufferOverflow"
  /\ UNCHANGED <<printed, closed, available, buf, messages, decodeErrors>>

\* The child prints and fill_buf() gets it.
Fill(bytes) ==
  /\ outcome = "reading" /\ available = <<>> /\ ~closed
  /\ printed' = printed \o bytes
  /\ available' = bytes
  /\ UNCHANGED <<closed, buf, messages, decodeErrors, outcome>>

Close ==
  /\ outcome = "reading" /\ available = <<>> /\ ~closed
  /\ closed' = TRUE
  /\ UNCHANGED <<printed, available, buf, messages, decodeErrors, outcome>>

TakeLine ==
  /\ outcome = "reading" /\ "lf" \in Range(available)
  /\ LET pos == SelectInSeq(available, LAMBDA b : b = "lf") - 1 IN
       \/ Overflows(Len(buf) + pos) /\ Overflow
       \/ /\ ~Overflows(Len(buf) + pos)
          /\ HandleLine(buf \o SubSeq(available, 1, pos))
          /\ buf' = <<>>
          /\ available' = SubSeq(available, pos + 2, Len(available))
          /\ UNCHANGED <<printed, closed>>

TakePart ==
  /\ outcome = "reading" /\ available # <<>> /\ "lf" \notin Range(available)
  /\ \/ Overflows(Len(buf) + Len(available)) /\ Overflow
     \/ /\ ~Overflows(Len(buf) + Len(available))
        /\ buf' = buf \o available
        /\ available' = <<>>
        /\ UNCHANGED <<printed, closed, messages, decodeErrors, outcome>>

\* At the end of the stream, what is left is a line.
Eof ==
  /\ outcome = "reading" /\ available = <<>> /\ closed
  /\ \/ buf # <<>> /\ HandleLine(buf) /\ buf' = <<>>
     \/ /\ buf = <<>>
        /\ outcome' = "eof"
        /\ UNCHANGED <<buf, messages, decodeErrors>>
  /\ UNCHANGED <<printed, closed, available>>

XNext ==
  \/ \E n \in 1..(MaxOutput - Len(printed)) : \E bytes \in [1..n -> Bytes] : Fill(bytes)
  \/ Close \/ TakeLine \/ TakePart \/ Eof

XSpec == XInit /\ [][XNext]_xvars
-----------------------------------------------------------------------------
(* Properties                                                              *)

\* Where the lines of a text start, counted from 0, and where each ends.
Starts(text) == {0} \cup {i \in DOMAIN text : text[i] = "lf"}
EndOf(text, i) == Min({j \in Starts(text) : j > i} \cup {Len(text) + 1})
LineAt(text, i) == SubSeq(text, i + 1, EndOf(text, i) - 1)

\* The lines of what was printed, by their starts: what the line feeds end,
\* and the rest when no more comes.
LinesPrinted == {i \in Starts(printed) : closed \/ EndOf(printed, i) <= Len(printed)}

\* A line that ends the reading, a line with nothing on it, and a line with a
\* message, whose length counts without the "\r" of a "\r\n".
Fatal(line) == Len(line) >= MaxBuffer \/ "invalid" \in Range(line)
Empty(line) == \A i \in DOMAIN line : line[i] \in {"cr", "space"}
Carries(line) ==
  /\ \E i \in DOMAIN line : line[i] = "message" /\ Empty(RemoveAt(line, i))
  /\ Len(line) <= MaxMessage \/ (Len(line) = MaxMessage + 1 /\ Last(line) = "cr")

\* The counters say of these lines what is in them, and of so many more that
\* they are broken.
Counted(starts, more) ==
  LET full == {i \in starts : Carries(LineAt(printed, i))}
      bad == {i \in starts : ~Empty(LineAt(printed, i)) /\ ~Carries(LineAt(printed, i))}
  IN  messages = Cardinality(full) /\ decodeErrors = Cardinality(bad) + more

\* However the pipe cuts the stream, the messages are those of the lines
\* before the first fatal one, in number and so in order, every other line
\* with something on it is counted, and the reading ends at a fatal line or
\* at the end of the stream, never with a line unread.
CodecIsExact ==
  LET fatal == {i \in LinesPrinted : Fatal(LineAt(printed, i))}
      read == {i \in LinesPrinted : \A j \in fatal : i < j}
  IN  /\ outcome = "reading" /\ available = <<>> /\ (closed => buf = <<>>) =>
           fatal = {} /\ Counted(read, 0)
      /\ outcome = "eof" => closed /\ fatal = {} /\ Counted(read, 0)
      /\ outcome = "InvalidUtf8" =>
           /\ fatal # {} /\ Len(LineAt(printed, Min(fatal))) < MaxBuffer
           /\ Counted(read, 1)
      /\ outcome = "BufferOverflow" =>
           /\ Counted(read, 0)
           /\ fatal = {} => ~closed
           /\ fatal # {} => Len(LineAt(printed, Min(fatal))) >= MaxBuffer

-----------------------------------------------------------------------------
(* The inductive invariant behind CodecIsExact                             *)

\* How much of what was printed is in lines that were handled.
Handled == Len(printed) - Len(buf) - Len(available)

CodecTypeOK ==
  /\ {printed, available, buf} \subseteq Seq(Bytes)
  /\ closed \in BOOLEAN
  /\ {messages, decodeErrors} \subseteq Nat
  /\ outcome \in {"reading", "InvalidUtf8", "BufferOverflow", "eof"}

\* What was printed is what was handled, the line so far, and what is
\* available; the line so far is no line yet, and starts where one does, or
\* is the rest that was handled at the end.
BufferFits ==
  /\ Handled \in 0..Len(printed)
  /\ \A i \in 1..Len(buf) : printed[Handled + i] = buf[i] /\ buf[i] # "lf"
  /\ \A i \in 1..Len(available) : printed[Handled + Len(buf) + i] = available[i]
  /\ Len(buf) < MaxBuffer
  /\ closed => available = <<>>
  /\ Handled \in Starts(printed) \/ (closed /\ buf = <<>>)

\* The lines that start before are counted, and none is fatal.
Before(n) == {i \in Starts(printed) : i < n}
LinesHandled ==
  /\ \A i \in Before(Handled) : ~Fatal(LineAt(printed, i))
  /\ Counted(Before(Handled), 0)

\* The line so far is too long with the end of the line, or without one yet.
LineOverflows ==
  /\ available # <<>>
  /\ \/ /\ "lf" \notin Range(available)
        /\ Len(buf) + Len(available) >= MaxBuffer
     \/ \E p \in DOMAIN available :
          /\ available[p] = "lf" /\ \A k \in 1..(p - 1) : available[k] # "lf"
          /\ Len(buf) + p - 1 >= MaxBuffer

\* The reading ended at this line.
BrokenAt(f) ==
  /\ f \in LinesPrinted
  /\ "invalid" \in Range(LineAt(printed, f)) /\ Len(LineAt(printed, f)) < MaxBuffer
  /\ \A i \in Before(f) : ~Fatal(LineAt(printed, i))
  /\ Counted(Before(f), 1)

CodecIInv ==
  /\ CodecTypeOK
  /\ outcome # "InvalidUtf8" => BufferFits /\ LinesHandled
  /\ outcome = "eof" => closed /\ buf = <<>>
  /\ outcome = "BufferOverflow" => LineOverflows
  /\ outcome = "InvalidUtf8" => \E f \in Starts(printed) : BrokenAt(f)
=============================================================================
