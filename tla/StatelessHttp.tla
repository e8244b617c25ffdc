---------------------------- MODULE StatelessHttp -----------------------------
(***************************************************************************)
(* The stateless gateway (src/src/gateway/stateless_http.rs): a POST takes *)
(* a permit, spawns a child of its own, initializes it unless the body     *)
(* does, forwards the body, collects as many responses as it has requests, *)
(* and kills the child.  Requests share nothing but the permit counter.    *)
(*                                                                         *)
(* A body is a sequence of messages; validation of the HTTP request, which *)
(* ends it with an error and the permit released, is the step Reject.  Of  *)
(* the child's bridge (ChildBridge) this module keeps where it can hold    *)
(* the handler: a write, which has no deadline, and the drop.              *)
(***************************************************************************)
EXTENDS Integers, Sequences, FiniteSets, SequencesExt

CONSTANTS
  Posts,        \* POST requests
  Asks,         \* requests in the bodies other than initialize
  BodyOf,       \* the messages of each body
  MaxActive,    \* MAX_CONCURRENT_REQUESTS
  ChannelCap,   \* STDOUT_CHANNEL_CAP, in lines
  MaxNotes,     \* bound on the notifications of a child
  MayBatch      \* a child may print several messages as one JSON array

ASSUME BodiesAreMessages ==
  BodyOf \in [Posts -> Seq(Asks \cup {"initialize", "note", "response"})]
ASSUME AsksAreNamed ==
  Asks \cap {"auto", "initialize", "initialized", "note", "response"} = {}
ASSUME PostsAreFinite == IsFiniteSet(Posts)
ASSUME LimitsAreNat == {MaxActive, ChannelCap} \subseteq Nat \ {0} /\ MaxNotes \in Nat
ASSUME MayBatchIsBoolean == MayBatch \in BOOLEAN

VARIABLES
  active,     \* StatelessHttpGateway.active_requests
  step,       \* where the handler is
  stdin,      \* what it wrote to its child
  child,      \* its child; all but "none" and "running" are marked dead
  answered,   \* requests its child has answered
  notes,      \* notifications its child has printed
  lines,      \* the child's output that is not read: a line is a sequence
  read,       \* history: the lines that were read
  buffered,   \* buffered_notifications
  collected,  \* what collect_responses() has
  reply,      \* the HTTP response, until it is sent
  expired     \* history: a timeout of the request has passed

hvars == <<active, step, stdin, child, answered, notes, lines, read, buffered,
           collected, reply, expired>>

childVars == <<child, answered, notes>>
printed == <<answered, notes>>
outVars == <<lines, read, buffered, collected>>

HttpInit ==
  /\ active = 0
  /\ step = [p \in Posts |-> "new"]
  /\ child = [p \in Posts |-> "none"]
  /\ notes = [p \in Posts |-> 0]
  /\ answered = [p \in Posts |-> {}]
  /\ reply = [p \in Posts |-> "none"]
  /\ expired = [p \in Posts |-> FALSE]
  /\ stdin = [p \in Posts |-> <<>>]
  /\ lines = [p \in Posts |-> <<>>]
  /\ read = [p \in Posts |-> <<>>]
  /\ buffered = [p \in Posts |-> <<>>]
  /\ collected = [p \in Posts |-> <<>>]

Goto(p, from, to) ==
  /\ step[p] = from
  /\ step' = [step EXCEPT ![p] = to]

Reply(p, from, to, with) ==
  /\ Goto(p, from, to)
  /\ reply' = [reply EXCEPT ![p] = with]

IsRequest(m) == m \in Asks \cup {"auto", "initialize"}
IsAnswer(m) == m \notin {"note"}
Expected(p) == Cardinality({i \in DOMAIN BodyOf[p] : IsRequest(BodyOf[p][i])})
Initializes(p) == "initialize" \in ToSet(BodyOf[p])

-----------------------------------------------------------------------------
(* acquire_request_permit(): fetch_add, and fetch_sub if it was too much.  *)

HasPermit_OffByOne == active <= MaxActive
HasPermit == active < MaxActive

TakePermit(p) ==
  /\ Goto(p, "new", IF HasPermit THEN "parse" ELSE "refuse")
  /\ active' = active + 1
  /\ UNCHANGED <<stdin, childVars, outVars, reply, expired>>

RefusePermit(p) ==
  /\ Goto(p, "refuse", "done")                                       \* 503
  /\ active' = active - 1
  /\ UNCHANGED <<stdin, childVars, outVars, reply, expired>>

\* handle_post_inner(), up to the spawn.
Reject(p) ==
  /\ Reply(p, "parse", "release", "rejected")
  /\ UNCHANGED <<active, stdin, childVars, outVars, expired>>

AcceptNotes(p) ==
  /\ \A m \in ToSet(BodyOf[p]) : m = "note"
  /\ Reply(p, "parse", "release", "accepted")
  /\ UNCHANGED <<active, stdin, childVars, outVars, expired>>

SpawnChild(p) ==
  /\ \E m \in ToSet(BodyOf[p]) : m # "note"
  /\ Goto(p, "parse", IF Initializes(p) THEN "forward" ELSE "init")
  /\ child' = [child EXCEPT ![p] = "running"]
  /\ UNCHANGED <<active, stdin, answered, notes, outVars, reply, expired>>

-----------------------------------------------------------------------------
(* auto_init_and_forward() and forward_direct()                            *)

\* One write_message(), when the pipe has room for it.  A child that is marked
\* dead, or has closed its stdin and now is, ends the exchange.
Write(p, m, from, to) ==
  /\ \/ /\ child[p] = "running"
        /\ Goto(p, from, to)
        /\ stdin' = [stdin EXCEPT ![p] = Append(@, m)]
        /\ UNCHANGED <<child, reply>>
     \/ /\ Reply(p, from, "kill", "child_dead")
        /\ child' = [child EXCEPT ![p] = IF @ = "running" THEN "lost" ELSE @]
        /\ UNCHANGED stdin
  /\ UNCHANGED <<active, printed, outVars, expired>>

SendInit(p) == Write(p, "auto", "init", "wait")

\* wait_for_init_response() takes a line: what stands before the answer is
\* kept, what stands behind it on the same line is not.
ReadLine(p) ==
  /\ lines[p] # <<>>
  /\ lines' = [lines EXCEPT ![p] = Tail(@)]
  /\ read' = [read EXCEPT ![p] = Append(@, Head(lines[p]))]

UpToAnswer(line) == SelectInSeq(line, LAMBDA m : m = "auto")
Kept(line) == IF UpToAnswer(line) = 0 THEN line ELSE SubSeq(line, 1, UpToAnswer(line) - 1)

AfterBuffering_Overwritten(p, line) == line
AfterBuffering(p, line) == buffered[p] \o line

BufferLine(p) ==
  /\ ReadLine(p)
  /\ Goto(p, "wait", IF UpToAnswer(Head(lines[p])) = 0 THEN "wait" ELSE "initialized")
  /\ buffered' = [buffered EXCEPT ![p] = AfterBuffering(p, Kept(Head(lines[p])))]
  /\ UNCHANGED <<active, stdin, childVars, collected, reply, expired>>

\* The reader has ended and all it had read was taken: StdoutClosed, or its
\* last error.
NoMoreLines(p) == child[p] \in {"exited", "garbled"} /\ lines[p] = <<>>

InitTimesOut_Never(p) == FALSE
InitTimesOut(p) ==
  /\ Reply(p, "wait", "kill", "init_timeout")
  /\ expired' = [expired EXCEPT ![p] = TRUE]

InitFails(p) ==
  /\ \/ InitTimesOut(p)
     \/ NoMoreLines(p) /\ Reply(p, "wait", "kill", "child_dead") /\ UNCHANGED expired
  /\ UNCHANGED <<active, stdin, childVars, outVars>>

SendInitialized(p) == Write(p, "initialized", "initialized", "forward")

Forwarded(p) == Cardinality({i \in DOMAIN stdin[p] : stdin[p][i] \in ToSet(BodyOf[p])})

ForwardNext(p) ==
  /\ Forwarded(p) < Len(BodyOf[p])
  /\ Write(p, BodyOf[p][Forwarded(p) + 1], "forward",
           IF Forwarded(p) + 1 = Len(BodyOf[p]) THEN "collect" ELSE "forward")

-----------------------------------------------------------------------------
(* collect_responses(), and the reply made of it.                          *)

Counts_Everything(m) == TRUE
Counts(m) == IsAnswer(m)

Responses(p) == Cardinality({i \in DOMAIN collected[p] : Counts(collected[p][i])})

CollectLine(p) ==
  /\ step[p] = "collect"
  /\ Responses(p) < Expected(p)
  /\ ReadLine(p)
  /\ collected' = [collected EXCEPT ![p] = @ \o Head(lines[p])]
  /\ UNCHANGED <<active, step, stdin, childVars, buffered, reply, expired>>

\* A body of the client's own responses asks for nothing: 202.
AcceptResponses(p) ==
  /\ Expected(p) = 0
  /\ Reply(p, "collect", "kill", "accepted")
  /\ UNCHANGED <<active, stdin, childVars, outVars, expired>>

\* Whether all are there or not, what is there is sent.
Respond(p) ==
  Reply(p, "collect", "kill", IF collected[p] # <<>> THEN "sse" ELSE "no_answer")

CollectEnds(p) ==
  /\ Expected(p) > 0
  /\ \/ Responses(p) >= Expected(p) /\ UNCHANGED expired
     \/ NoMoreLines(p) /\ UNCHANGED expired
     \/ expired' = [expired EXCEPT ![p] = TRUE]
  /\ Respond(p)
  /\ UNCHANGED <<active, stdin, childVars, outVars>>

\* child.kill(), always.  It returns as soon as the child is marked dead, and
\* then leaves one alive that ignores SIGTERM.
KillLeaves(p) == IF child[p] \in {"lost", "garbled"} THEN {child[p], "exited"}
                                                     ELSE {"exited"}

Kill(p) ==
  /\ Goto(p, "kill", "release")
  /\ \E left \in KillLeaves(p) : child' = [child EXCEPT ![p] = left]
  /\ UNCHANGED <<active, stdin, printed, outVars, reply, expired>>

\* Drop of the child joins the threads that read its stdout and stderr and
\* wait for it.  The first never ends while it has a line for a full channel,
\* which nobody reads any more.
ReaderSpins(p) == Len(lines[p]) > ChannelCap
DropReturns(p) == child[p] \in {"none", "exited"} /\ ~ReaderSpins(p)

\* The handler returns: its locals go, the child first and the permit last.
PermitsAfter_Twice == active - 2
PermitsAfter == active - 1

Release(p) ==
  /\ Goto(p, "release", "done")
  /\ DropReturns(p)
  /\ active' = PermitsAfter
  /\ stdin' = [stdin EXCEPT ![p] = <<>>]
  /\ lines' = [lines EXCEPT ![p] = <<>>]
  /\ read' = [read EXCEPT ![p] = <<>>]
  /\ buffered' = [buffered EXCEPT ![p] = <<>>]
  /\ collected' = [collected EXCEPT ![p] = <<>>]
  /\ answered' = [answered EXCEPT ![p] = {}]
  /\ notes' = [notes EXCEPT ![p] = 0]
  /\ reply' = [reply EXCEPT ![p] = "none"]
  /\ expired' = [expired EXCEPT ![p] = FALSE]
  /\ UNCHANGED child

-----------------------------------------------------------------------------
(* The child (external) prints answers and notifications, or exits; one    *)
(* marked dead while it runs was "garbled", and its output is read no      *)
(* further, or "lost": its stdin, or its first process, is gone and what   *)
(* holds its other pipes may go on.                                        *)

Owed(p) == {m \in ToSet(stdin[p]) : IsRequest(m)} \ answered[p]

Lines(p) ==
  LET one == {<<m>> : m \in Owed(p) \cup {"note"}}
  IN  IF MayBatch
      THEN one \cup {<<m, n>> : m, n \in Owed(p) \cup {"note"}}
      ELSE one

ChildPrints(p) ==
  /\ child[p] \in {"running", "lost"}
  /\ \E line \in Lines(p) :
       LET new == Cardinality({i \in DOMAIN line : line[i] = "note"}) IN
         /\ Cardinality(ToSet(line)) = Len(line)
         /\ notes[p] + new <= MaxNotes
         /\ notes' = [notes EXCEPT ![p] = @ + new]
         /\ answered' = [answered EXCEPT ![p] = @ \cup (ToSet(line) \ {"note"})]
         /\ lines' = [lines EXCEPT ![p] = Append(@, line)]
  /\ UNCHANGED <<active, step, stdin, child, read, buffered, collected, reply, expired>>

ChildBecomes(p, from, to) ==
  /\ child[p] \in from
  /\ child' = [child EXCEPT ![p] = to]
  /\ UNCHANGED <<active, step, stdin, printed, outVars, reply, expired>>

ChildExits(p) == ChildBecomes(p, {"running", "lost", "garbled"}, "exited")
ChildIsLost(p) == ChildBecomes(p, {"running"}, "lost")

\* Invalid UTF-8 or an endless line, once the reader gets to it.
ChildGarbles(p) == ~ReaderSpins(p) /\ ChildBecomes(p, {"running", "lost"}, "garbled")

-----------------------------------------------------------------------------
\* The steps that may wait for a child to read.
Writes(p) == SendInit(p) \/ SendInitialized(p) \/ ForwardNext(p)

Handle(p) ==
  \/ RefusePermit(p) \/ Reject(p) \/ AcceptNotes(p) \/ SpawnChild(p)
  \/ BufferLine(p) \/ InitFails(p)
  \/ CollectLine(p) \/ AcceptResponses(p) \/ CollectEnds(p)
  \/ Kill(p) \/ Release(p)

HttpNext ==
  \E p \in Posts :
    \/ TakePermit(p) \/ Handle(p) \/ Writes(p)
    \/ ChildPrints(p) \/ ChildExits(p) \/ ChildIsLost(p) \/ ChildGarbles(p)

HttpSpec == HttpInit /\ [][HttpNext]_hvars

\* A handler's thread runs and its deadlines pass; clients owe nothing, and the
\* child not even to read.  Only a write to one that has exited is sure to return:
\* one that waits already does not see its child being marked dead.
HttpFairSpec ==
  /\ HttpSpec
  /\ \A p \in Posts : WF_hvars(Handle(p)) /\ WF_hvars(child[p] = "exited" /\ Writes(p))

-----------------------------------------------------------------------------
(* Properties                                                              *)

Steps == {"new", "refuse", "parse", "init", "wait", "initialized", "forward",
          "collect", "kill", "release", "done"}

Messages == Asks \cup {"auto", "initialize", "initialized", "note", "response"}
Children == {"none", "running", "lost", "garbled", "exited"}

\* Every variable has its type.
ExchangesTypeOK ==
  /\ step \in [Posts -> Steps]
  /\ child \in [Posts -> Children]
  /\ reply \in [Posts -> {"none", "rejected", "accepted", "child_dead",
                          "init_timeout", "no_answer", "sse"}]
  /\ expired \in [Posts -> BOOLEAN]
  /\ answered \in [Posts -> SUBSET Messages] /\ notes \in [Posts -> 0..MaxNotes]
  /\ {stdin, buffered, collected} \subseteq [Posts -> Seq(Messages)]
  /\ {lines, read} \subseteq [Posts -> Seq(Seq(Messages))]

HttpTypeOK == active \in 0..Cardinality(Posts) /\ ExchangesTypeOK

InService == {p \in Posts : step[p] \notin {"new", "refuse", "done"}}

\* However requests overlap there are never more in service, each with a
\* child, than permits, and every way out of a handler gives its permit back.
PermitsExact ==
  /\ Cardinality(InService) <= MaxActive
  /\ active = Cardinality(InService \cup {p \in Posts : step[p] = "refuse"})

Requests(p) == {m \in ToSet(BodyOf[p]) : IsRequest(m)}
KeptOf(ls) == [i \in 1..Len(ls) |-> Kept(ls[i])]

\* An answer to every request, unless the child ended, its output could not be
\* read, or the time was up.
AnswersAll(p) ==
  reply[p] = "sse" /\ ~expired[p] /\ step[p] = "kill" =>
    child[p] \in {"exited", "garbled"} \/ Requests(p) \subseteq ToSet(collected[p])

\* A reply that is a stream answers all of the body, and is made of all the
\* child printed up to then, in its order and across the hand-over from the
\* one reader to the other, but for the answer to the synthetic initialize and
\* what stands behind it on its line.
ReplyIsComplete ==
  \A p \in Posts :
    AnswersAll(p) /\ buffered[p] \o collected[p] = FlattenSeq(KeptOf(read[p]))

\* What may hold a handler for ever: a write to a child that does not read, and
\* the drop of one that was marked dead and would not go, or whose reader has a
\* line too many.
Held(p) ==
  \/ step[p] \in {"init", "initialized", "forward"} /\ child[p] # "exited"
  \/ step[p] = "release" /\ (child[p] \in {"lost", "garbled"} \/ ReaderSpins(p))

\* A handler that has begun comes to its end, gives its permit back and leaves
\* no process behind, whatever its child prints, keeps to itself or breaks,
\* unless it is held for ever in one of these two places: everything else it
\* waits for has a deadline.
EveryPostEnds ==
  \A p \in Posts :
    \/ step[p] # "new" ~> step[p] = "done" /\ child[p] \in {"none", "exited"}
    \/ <>[]Held(p)

-----------------------------------------------------------------------------
(* The inductive invariant behind PermitsExact                             *)

\* Who holds a permit: the requests in service, and those that took one too
\* much and are about to give it back.
Holding == {p \in Posts : step[p] \notin {"new", "done"}}

PermitsIInv ==
  /\ step \in [Posts -> Steps]
  /\ active = Cardinality(Holding)
  /\ Cardinality(InService) <= MaxActive

-----------------------------------------------------------------------------
(* The inductive invariant behind ReplyIsComplete                          *)

AnswersIn(msgs) == {m \in ToSet(msgs) : IsAnswer(m)}
AnswersOnce(msgs) == \A j, k \in DOMAIN msgs : msgs[j] = msgs[k] /\ IsAnswer(msgs[j]) => j = k

\* The handshake is made up only for a body without one, and is over when the
\* body goes out: its answer was read, and no other is to come.
HandshakeFits(p) ==
  /\ ToSet(stdin[p]) \subseteq ToSet(BodyOf[p]) \cup {"auto", "initialized"}
  /\ Initializes(p) => "auto" \notin ToSet(stdin[p])
  /\ step[p] \in {"init", "wait", "initialized"} => ~Initializes(p)
  /\ step[p] \in {"initialized", "forward", "collect"} =>
       /\ "auto" \in ToSet(stdin[p]) => "auto" \in answered[p]
       /\ \A i \in DOMAIN lines[p] : "auto" \notin ToSet(lines[p][i])

\* The child answers what it was asked, and nothing twice.
AnswersFit(p) ==
  /\ answered[p] \subseteq {m \in ToSet(stdin[p]) : IsRequest(m)}
  /\ \A i \in DOMAIN lines[p] :
       /\ AnswersOnce(lines[p][i]) /\ AnswersIn(lines[p][i]) \subseteq answered[p]
       /\ AnswersIn(lines[p][i]) \cap AnswersIn(collected[p]) = {}
       /\ \A j \in DOMAIN lines[p] :
            i # j => AnswersIn(lines[p][i]) \cap AnswersIn(lines[p][j]) = {}
  /\ AnswersOnce(collected[p]) /\ AnswersIn(collected[p]) \subseteq answered[p] \ {"auto"}

NothingCollected(p) ==
  step[p] \notin {"collect", "kill", "release"} => collected[p] = <<>>

RepliesIInv ==
  /\ ExchangesTypeOK
  /\ \A p \in Posts : HandshakeFits(p) /\ AnswersFit(p) /\ NothingCollected(p)
  /\ ReplyIsComplete
=============================================================================
