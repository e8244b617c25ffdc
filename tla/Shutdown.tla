------------------------------ MODULE Shutdown -------------------------------
(***************************************************************************)
(* Signals (src/src/signal.rs): the handler of SIGINT, SIGTERM and SIGHUP, *)
(* which runs on any thread of the process and on several at once, the two *)
(* atomics it sets, the self-pipe it writes to, and the thread in wait().  *)
(*                                                                         *)
(* The watcher of stdin's end, the watchdog and the readers of FORCE_EXIT  *)
(* are called by nothing in the program, and so is request_shutdown().     *)
(***************************************************************************)
EXTENDS Naturals, Sequences

CONSTANT Signals   \* signals that are sent to the process, each once

None == "none"     \* SHUTDOWN_SIGNAL is 0
ASSUME NoneIsNoSignal == None \notin Signals

VARIABLES
  shutdownSignal,  \* SHUTDOWN_SIGNAL
  forceExit,       \* FORCE_EXIT
  pipe,            \* bytes in the self-pipe
  handler,         \* for each signal, how many steps of its handler are done
  first,           \* history: the first signal whose handler had an effect
  waiter,          \* the thread in wait(): "checks", "reads", "wakes", "done"
  told             \* what wait() returned

signalVars == <<shutdownSignal, forceExit, pipe, handler, first, waiter, told>>

SignalInit ==
  /\ shutdownSignal = None /\ forceExit = FALSE /\ pipe = 0
  /\ handler = [s \in Signals |-> 0] /\ first = None
  /\ waiter = "checks" /\ told = None

-----------------------------------------------------------------------------
(* shutdown_handler()                                                      *)

Steps_WakeFirst == <<"wake", "mark">>
Steps == <<"mark", "wake">>

\* One compare-exchange tells the first signal from the later ones.
Mark(s) ==
  /\ IF shutdownSignal = None
     THEN shutdownSignal' = s /\ UNCHANGED forceExit
     ELSE forceExit' = TRUE /\ UNCHANGED shutdownSignal
  /\ UNCHANGED pipe

\* The write end does not block, and its capacity is out of reach.
Wake == pipe' = pipe + 1 /\ UNCHANGED <<shutdownSignal, forceExit>>

HandlerStep(s) ==
  /\ handler[s] < Len(Steps)
  /\ handler' = [handler EXCEPT ![s] = @ + 1]
  /\ first' = IF first = None THEN s ELSE first
  /\ IF Steps[handler[s] + 1] = "mark" THEN Mark(s) ELSE Wake
  /\ UNCHANGED <<waiter, told>>

-----------------------------------------------------------------------------
(* wait(): a look at the signal, then a read that blocks.                  *)

Check ==
  /\ waiter = "checks"
  /\ told' = shutdownSignal
  /\ waiter' = IF shutdownSignal = None THEN "reads" ELSE "done"
  /\ UNCHANGED <<shutdownSignal, forceExit, pipe, handler, first>>

ReadPipe ==
  /\ waiter = "reads" /\ pipe > 0
  /\ pipe' = pipe - 1
  /\ waiter' = "wakes"
  /\ UNCHANGED <<shutdownSignal, forceExit, handler, first, told>>

Woken ==
  /\ waiter = "wakes"
  /\ told' = shutdownSignal
  /\ waiter' = "done"
  /\ UNCHANGED <<shutdownSignal, forceExit, pipe, handler, first>>

SignalNext == (\E s \in Signals : HandlerStep(s)) \/ Check \/ ReadPipe \/ Woken

SignalSpec == SignalInit /\ [][SignalNext]_signalVars

-----------------------------------------------------------------------------
(* Properties                                                              *)

\* The first signal is the one wait() tells of, and none is lost between its
\* look at the flag and its read of the pipe, however many handlers run at once.
SignalIsHeard ==
  /\ waiter = "done" => told = first /\ first # None
  /\ waiter = "reads" /\ (\E s \in Signals : handler[s] = Len(Steps)) => pipe > 0

-----------------------------------------------------------------------------
(* The inductive invariant behind it                                       *)

SignalTypeOK ==
  /\ {shutdownSignal, first, told} \subseteq Signals \cup {None}
  /\ forceExit \in BOOLEAN
  /\ pipe \in Nat
  /\ handler \in [Signals -> 0..Len(Steps)]
  /\ waiter \in {"checks", "reads", "wakes", "done"}

\* The mark comes before the wake: a byte in the pipe, or one that was read,
\* means that the first signal is known.
MarkedFirst ==
  /\ first = shutdownSignal
  /\ (\E s \in Signals : handler[s] > 0) \/ pipe > 0 \/ waiter = "wakes" => first # None

SignalIInv == SignalTypeOK /\ MarkedFirst /\ SignalIsHeard
=============================================================================
