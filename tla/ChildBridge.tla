----------------------------- MODULE ChildBridge -----------------------------
(***************************************************************************)
(* One child process and the threads around it (src/src/child.rs): callers *)
(* of write_message() and kill(), the stdout reader, the wait thread, the  *)
(* consumer of the stdout channel, who asks for the exit code after its    *)
(* kill(), the zombie reaper that signal.rs installs if the gateway is     *)
(* process 1, and the final Drop.                                          *)
(*                                                                         *)
(* The child is external: it may or may not read its stdin, print, close   *)
(* its stdout, exit or ignore SIGTERM.  KILL_TIMEOUT and DROP_TIMEOUT may  *)
(* pass at any moment.  The stderr reader only logs and is left out.       *)
(***************************************************************************)
EXTENDS Naturals, Sequences

CONSTANTS
  Writers,     \* callers of write_message(), one message each
  PipeCap,     \* messages the stdin pipe holds before a write blocks
  ChanCap,     \* STDOUT_CHANNEL_CAP
  Natures      \* the sets of faults it may be prone to: the child may print
               \* invalid UTF-8 or an endless line ("spew") or close its stdin
               \* and run on ("deafen"), its consumer may "stop" early

ASSUME CapsPositive == PipeCap \in Nat \ {0} /\ ChanCap \in Nat \ {0}
ASSUME FaultsKnown == Natures \subseteq SUBSET {"spew", "deafen", "stop"}

\* The relay of a gateway, and the cleanup of its session.
Killers == {"relay", "cleanup"}
Unlocked == "unlocked"
ASSUME UnlockedIsNobody == Unlocked \notin Writers

VARIABLES
  proc,         \* the process: "running", "exited" (a zombie), "reaped"
  how,          \* how it ended: by itself ("code") or by a signal
  ignoresTerm,  \* whether it survives SIGTERM
  prone,        \* the faults it and its consumer are prone to
  fds,          \* its ends of the pipes that are open: "in", "out"
  signals,      \* signals sent to its group
  stdinOpen,    \* ChildBridge.stdin is Some
  stdinLock,    \* who holds the mutex around it
  pipe,         \* messages in the pipe
  writer,       \* where each write_message() is
  dead,         \* ChildBridge.dead
  status,       \* what child.wait() returned: "none" (yet, or a signal), "code",
                \* or "error"
  exitCode,     \* ChildBridge.exit_code: "none" or "code"
  waiter,       \* the wait thread
  reader,       \* the stdout reader thread
  chan,         \* the stdout channel
  killer,       \* where each kill() is
  relay,        \* the consumer of the channel
  seen,         \* the exit code it read: "unread", "none" or "code"
  dropper       \* the Drop of the bridge

cvars == <<proc, how, ignoresTerm, prone, fds, signals, stdinOpen, stdinLock, pipe,
           writer, dead, status, exitCode, waiter, reader, chan, killer, relay,
           seen, dropper>>

childVars == <<proc, how, ignoresTerm, prone, fds>>
exitVars == <<status, exitCode>>
stdinVars == <<stdinOpen, stdinLock, pipe, writer>>
threadVars == <<waiter, reader, chan>>
callerVars == <<killer, relay, seen, dropper>>

Init ==
  /\ proc = "running" /\ how = "none" /\ ignoresTerm \in BOOLEAN
  /\ prone \in Natures
  /\ fds = {"in", "out"}
  /\ signals = {}
  /\ stdinOpen = TRUE /\ stdinLock = Unlocked /\ pipe = 0
  /\ writer = [w \in Writers |-> "idle"]
  /\ dead = FALSE
  /\ status = "none" /\ exitCode = "none"
  /\ waiter = "waiting" /\ reader = "reading" /\ chan = <<>>
  /\ killer = [k \in Killers |-> "idle"]
  /\ relay = "reading" /\ seen = "unread"
  /\ dropper = "none"

-----------------------------------------------------------------------------
(* The child.                                                              *)

ChildReads ==
  /\ "in" \in fds /\ pipe > 0
  /\ pipe' = pipe - 1
  /\ UNCHANGED <<childVars, signals, stdinOpen, stdinLock, writer, dead, exitVars,
                 threadVars, callerVars>>

ChildCloses(fd) ==
  /\ fd \in fds
  /\ fds' = fds \ {fd}
  /\ UNCHANGED <<proc, how, ignoresTerm, prone, signals, stdinVars, dead, exitVars,
                 threadVars, callerVars>>

ChildEnds(why) ==
  /\ proc = "running"
  /\ proc' = "exited" /\ how' = why /\ fds' = {}
  /\ UNCHANGED <<ignoresTerm, prone, signals, stdinVars, dead, exitVars, threadVars,
                 callerVars>>

ChildExits == ChildEnds("code")

ChildObeys ==
  /\ \/ "KILL" \in signals
     \/ "TERM" \in signals /\ ~ignoresTerm
  /\ ChildEnds("signal")

-----------------------------------------------------------------------------
(* write_message(): the flag, the mutex, the write.                        *)

WriteCheck(w) ==
  /\ writer[w] = "idle" /\ dropper = "none"
  /\ writer' = [writer EXCEPT ![w] = IF dead THEN "failed" ELSE "lock"]
  /\ UNCHANGED <<childVars, signals, stdinOpen, stdinLock, pipe, dead, exitVars,
                 threadVars, callerVars>>

WriteLock(w) ==
  /\ writer[w] = "lock" /\ stdinLock = Unlocked
  /\ IF stdinOpen
     THEN /\ writer' = [writer EXCEPT ![w] = "writing"]
          /\ stdinLock' = w
     ELSE /\ writer' = [writer EXCEPT ![w] = "failed"]
          /\ UNCHANGED stdinLock
  /\ UNCHANGED <<childVars, signals, stdinOpen, pipe, dead, exitVars, threadVars,
                 callerVars>>

\* A full pipe blocks the writer with the mutex held.
WriteBytes(w) ==
  /\ writer[w] = "writing"
  /\ stdinLock' = Unlocked
  /\ \/ /\ "in" \in fds /\ pipe < PipeCap
        /\ pipe' = pipe + 1
        /\ writer' = [writer EXCEPT ![w] = "sent"]
        /\ UNCHANGED <<stdinOpen, dead>>
     \/ /\ "in" \notin fds                             \* EPIPE
        /\ writer' = [writer EXCEPT ![w] = "failed"]
        /\ stdinOpen' = FALSE
        /\ dead' = TRUE
        /\ UNCHANGED pipe
  /\ UNCHANGED <<childVars, signals, exitVars, threadVars, callerVars>>

-----------------------------------------------------------------------------
(* stdout_reader_loop() and wait_loop().                                   *)

\* A decoding error condemns the child, the end of its output does not.
MarksDead_AtEof(item) == item \in {"fatal", "eof"}
MarksDead(item) == item = "fatal"

ReaderGets(item) ==
  /\ reader = "reading" /\ "out" \in fds
  /\ reader' = item
  /\ dead' = (dead \/ MarksDead(item))
  /\ UNCHANGED <<childVars, signals, stdinVars, exitVars, waiter, chan, callerVars>>

ChanHasRoom_OffByOne == Len(chan) <= ChanCap
ChanHasRoom == Len(chan) < ChanCap

\* A message waits for room, a fatal error is tried once.
ReaderSends ==
  /\ \/ /\ reader = "msg" /\ ChanHasRoom
        /\ chan' = Append(chan, reader)
        /\ reader' = "reading"
     \/ /\ reader = "fatal"
        /\ chan' = IF ChanHasRoom THEN Append(chan, reader) ELSE chan
        /\ reader' = "closed"
  /\ UNCHANGED <<childVars, signals, stdinVars, dead, exitVars, waiter, callerVars>>

ReaderEof ==
  /\ reader = "reading" /\ "out" \notin fds
  /\ reader' = "closed"
  /\ dead' = (dead \/ MarksDead("eof"))
  /\ UNCHANGED <<childVars, signals, stdinVars, exitVars, waiter, chan, callerVars>>

\* If the gateway is process 1, its SIGCHLD handler waits for any child.
ReapZombie ==
  /\ proc = "exited"
  /\ proc' = "reaped"
  /\ UNCHANGED <<how, ignoresTerm, prone, fds, signals, stdinVars, dead, exitVars,
                 threadVars, callerVars>>

\* If the handler was first, wait() fails and there is no exit code.
WaitReaps ==
  /\ waiter = "waiting" /\ proc \in {"exited", "reaped"}
  /\ proc' = "reaped"
  /\ status' = CASE proc = "reaped" -> "error"
                 [] how = "code" -> "code"
                 [] OTHER -> "none"
  /\ waiter' = "flag"
  /\ UNCHANGED <<how, ignoresTerm, prone, fds, signals, stdinVars, dead, exitCode,
                 reader, chan, callerVars>>

WaitFlags ==
  /\ waiter = "flag"
  /\ dead' = TRUE
  /\ waiter' = "store"
  /\ UNCHANGED <<childVars, signals, stdinVars, exitVars, reader, chan, callerVars>>

WaitStores ==
  /\ waiter = "store"
  /\ exitCode' = IF status = "code" THEN "code" ELSE "none"
  /\ waiter' = "done"
  /\ UNCHANGED <<childVars, signals, stdinVars, dead, status, reader, chan, callerVars>>

-----------------------------------------------------------------------------
(* kill(): close stdin, SIGTERM, poll is_dead(), SIGKILL.                  *)

KillStep(k, from, to) ==
  /\ killer[k] = from
  /\ killer' = [killer EXCEPT ![k] = to]
  /\ UNCHANGED <<childVars, pipe, writer, dead, exitVars, threadVars, relay, seen,
                 dropper>>

KillEntry_SkipDead == IF dead THEN "done" ELSE "close"
KillEntry == "close"

StartKill(k) ==
  /\ k = "relay" => relay = "ended"
  /\ dropper = "none"
  /\ KillStep(k, "idle", KillEntry)
  /\ UNCHANGED <<signals, stdinOpen, stdinLock>>

KillCloseStdin(k) ==
  /\ stdinLock = Unlocked
  /\ stdinOpen' = FALSE
  /\ KillStep(k, "close", "term")
  /\ UNCHANGED <<signals, stdinLock>>

\* killpg() fails once the process was reaped.
KillTerm(k) ==
  /\ \/ proc = "reaped" /\ KillStep(k, "term", "done") /\ UNCHANGED signals
     \/ proc # "reaped" /\ KillStep(k, "term", "poll") /\ signals' = signals \cup {"TERM"}
  /\ UNCHANGED <<stdinOpen, stdinLock>>

KillSeesDead(k) ==
  /\ dead
  /\ KillStep(k, "poll", "done")
  /\ UNCHANGED <<signals, stdinOpen, stdinLock>>

EscalationSignal_Again == "TERM"
EscalationSignal == "KILL"

KillTimeout(k) ==
  /\ ~dead
  /\ signals' = signals \cup {EscalationSignal}
  /\ KillStep(k, "poll", "done")
  /\ UNCHANGED <<stdinOpen, stdinLock>>

-----------------------------------------------------------------------------
(* The consumer: a gateway's relay reads until an error or the end, then   *)
(* kills; a stateless handler just stops.                                  *)

Consume ==
  /\ relay = "reading" /\ chan # <<>>
  /\ chan' = Tail(chan)
  /\ relay' = IF Head(chan) = "fatal" THEN "ended" ELSE "reading"
  /\ UNCHANGED <<childVars, signals, stdinVars, dead, exitVars, waiter, reader,
                 killer, seen, dropper>>

ConsumerEnds ==
  /\ relay = "reading"
  /\ \/ "stop" \in prone
     \/ chan = <<>> /\ reader = "closed"
  /\ relay' = "ended"
  /\ UNCHANGED <<childVars, signals, stdinVars, dead, exitVars, threadVars, killer,
                 seen, dropper>>

\* It takes the exit code as soon as its kill() has returned, once.
ReadExitCode ==
  /\ killer["relay"] = "done" /\ seen = "unread" /\ dropper = "none"
  /\ seen' = exitCode
  /\ UNCHANGED <<childVars, signals, stdinVars, dead, exitVars, threadVars, killer,
                 relay, dropper>>

-----------------------------------------------------------------------------
(* Drop: nobody uses the bridge any more; the channel's receiver is still  *)
(* a field of it.                                                          *)

Drop ==
  /\ dropper = "none" /\ relay = "ended"
  /\ \A w \in Writers : writer[w] \in {"idle", "sent", "failed"}
  /\ \A k \in Killers : killer[k] \in {"idle", "done"}
  /\ IF dead THEN dropper' = "join" /\ UNCHANGED signals
             ELSE dropper' = "poll" /\ signals' = signals \cup {"TERM"}
  /\ UNCHANGED <<childVars, stdinVars, dead, exitVars, threadVars, killer, relay,
                 seen>>

DropPolled ==
  /\ dropper = "poll"
  /\ dropper' = "join"
  /\ signals' = IF dead THEN signals ELSE signals \cup {EscalationSignal}
  /\ UNCHANGED <<childVars, stdinVars, dead, exitVars, threadVars, killer, relay,
                 seen>>

\* Nothing is left to do.
Disposed == dropper = "done" /\ UNCHANGED cvars

Joinable == reader = "closed" /\ waiter = "done"

DropJoins ==
  /\ dropper = "join" /\ Joinable
  /\ dropper' = "done"
  /\ UNCHANGED <<childVars, signals, stdinVars, dead, exitVars, threadVars, killer, relay,
                 seen>>

-----------------------------------------------------------------------------
Threads ==
  \/ ReaderSends \/ ReaderEof \/ WaitReaps \/ WaitFlags \/ WaitStores
  \/ Consume
  \/ DropPolled \/ DropJoins

Kill(k) == KillCloseStdin(k) \/ KillTerm(k) \/ KillSeesDead(k) \/ KillTimeout(k)
Write(w) == WriteLock(w) \/ WriteBytes(w)

Next ==
  \/ ChildReads \/ ChildExits \/ ChildObeys
  \/ ChildCloses("out")
  \/ "deafen" \in prone /\ ChildCloses("in")
  \/ \E w \in Writers : WriteCheck(w) \/ Write(w)
  \/ ReaderGets("msg")
  \/ "spew" \in prone /\ ReaderGets("fatal")
  \/ ReapZombie
  \/ Threads
  \/ ConsumerEnds \/ ReadExitCode
  \/ \E k \in Killers : StartKill(k) \/ Kill(k)
  \/ Drop
  \/ Disposed

Spec == Init /\ [][Next]_cvars

\* Threads are scheduled and signals act; a child need not read, print or exit.
FairSpec ==
  /\ Spec
  /\ WF_cvars(ChildObeys)
  /\ WF_cvars(ReaderSends) /\ WF_cvars(ReaderEof)
  /\ WF_cvars(WaitReaps) /\ WF_cvars(WaitFlags) /\ WF_cvars(WaitStores)
  /\ WF_cvars(DropPolled) /\ WF_cvars(DropJoins)
  /\ \A w \in Writers : WF_cvars(Write(w))
  /\ \A k \in Killers : WF_cvars(Kill(k))

-----------------------------------------------------------------------------
(* Properties                                                              *)

\* Every variable has its type.
TypeOK ==
  /\ proc \in {"running", "exited", "reaped"}
  /\ how \in {"none", "code", "signal"}
  /\ signals \subseteq {"TERM", "KILL"}
  /\ ignoresTerm \in BOOLEAN /\ stdinOpen \in BOOLEAN /\ dead \in BOOLEAN
  /\ fds \subseteq {"in", "out"} /\ prone \in Natures
  /\ stdinLock \in Writers \cup {Unlocked}
  /\ pipe \in 0..PipeCap
  /\ writer \in [Writers -> {"idle", "lock", "writing", "sent", "failed"}]
  /\ status \in {"none", "code", "error"} /\ exitCode \in {"none", "code"}
  /\ seen \in {"unread", "none", "code"}
  /\ waiter \in {"waiting", "flag", "store", "done"}
  /\ reader \in {"reading", "msg", "fatal", "closed"}
  /\ chan \in Seq({"msg", "fatal"}) /\ Len(chan) <= ChanCap
  /\ killer \in [Killers -> {"idle", "close", "term", "poll", "done"}]
  /\ relay \in {"reading", "ended"}
  /\ dropper \in {"none", "poll", "join", "done"}

\* A child that prints well and keeps its stdin.
Wholesome == prone \subseteq {"stop"}

\* A writer blocked on a full pipe holds the mutex the kill() waits for.
Stuck(k) ==
  /\ killer[k] = "close" /\ stdinLock # Unlocked
  /\ "in" \in fds /\ pipe = PipeCap

\* kill() ends the process, one that ignores SIGTERM included ("SIGKILL if
\* still alive"), even if the process was already marked dead.  It fails on
\* two: a process that ignores SIGTERM and was marked dead for what it did to
\* its pipes, and one that never reads on while a writer waits for it, which
\* gets no signal at all.
KillKills ==
  \A k \in Killers :
    [](killer[k] # "idle" /\ (Wholesome \/ ~ignoresTerm)
         => <>(proc # "running") \/ <>[]Stuck(k))

\* What lets a kill() return before the wait thread has seen the end.
GivenUp ==
  "KILL" \in signals \/ ~Wholesome \/ \E w \in Writers : writer[w] = "failed"

\* "Child exit -> gateway process exit with child's exit code (or 1)" (PRD.md):
\* the relay misses the code of a child that ended by itself only between the
\* wait thread's reaping and its store, under a process 1 that reaped first,
\* and if its kill() gave the child up before: after a SIGKILL, or with the
\* flag set by a broken pipe or bad output.
ExitCodeIsFound ==
  [][seen' = "none" /\ seen = "unread" /\ how = "code"
       => \/ status = "error"
          \/ waiter = "waiting" /\ proc = "reaped"
          \/ waiter \in {"flag", "store"}
          \/ waiter = "waiting" /\ GivenUp]_cvars

\* Drop "joins all background threads": with a wholesome child and a consumer
\* that reads to the end it returns.
DropReturns == dropper # "none" /\ prone = {} ~> dropper = "done"

\* Of a wholesome child the flag never lies: marked dead it has ended, so a
\* kill() that returns early, a refused write or a Drop that sends no signal
\* misses nobody.  The end of its output is not its end.
DeadIsTrue == dead /\ Wholesome => proc # "running"

-----------------------------------------------------------------------------
(* The inductive invariant behind DeadIsTrue and ExitCodeIsFound           *)

\* Only who closes its stdin has it closed while it runs.
StdinKept == Wholesome /\ proc = "running" => "in" \in fds

\* What the wait thread knows of the end.
WaiterKnows ==
  /\ waiter # "waiting" => proc = "reaped"
  /\ waiter # "waiting" /\ how = "code" => status \in {"code", "error"}
  /\ waiter = "done" /\ status = "code" => exitCode = "code"

\* Why a child is marked dead, or a kill() over, before the wait thread saw it.
EarlyEnds ==
  /\ dead /\ waiter = "waiting" => GivenUp
  /\ \A k \in Killers : killer[k] = "done" => proc = "reaped" \/ dead \/ "KILL" \in signals

BridgeIInv == TypeOK /\ StdinKept /\ WaiterKnows /\ EarlyEnds /\ DeadIsTrue
=============================================================================
