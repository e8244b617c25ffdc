------------------------------- MODULE TableLock -------------------------------
(***************************************************************************)
(* Who waits for whom in the stateful gateway: the lock of the session     *)
(* table (src/src/session.rs), which a handler holds for reading while it  *)
(* writes to a child (src/src/gateway/stateful_http.rs), the mutex of each *)
(* child's stdin and the two pipes to it (src/src/child.rs).               *)
(*                                                                         *)
(* A section under the lock that cannot block is one step.  The lock is a  *)
(* std::sync::RwLock, whose readers queue up behind a writer that waits.   *)
(* What the handlers do to a session's counter and timers is in            *)
(* StatefulGateway, how answers find their handler in StatefulRelay.       *)
(***************************************************************************)
EXTENDS Naturals

CONSTANTS
  Handlers,  \* POST and DELETE handlers, a DELETE's drain task included
  Sessions,
  Orders,    \* what the handlers may be asked: [kind, session] of each
  Moods,     \* the sets of children that may stop reading for ever
  Messages,  \* in the body of a POST
  StdinCap,  \* messages a child's stdin holds before a write blocks
  StdoutCap, \* messages its stdout holds, the bounded channel included
  MaxPrints  \* bound on what a child prints for a message

ASSUME CapacitiesArePositive == {StdinCap, StdoutCap, Messages} \subseteq Nat \ {0}
ASSUME MoodsAreOfSessions == Moods \subseteq SUBSET Sessions
ASSUME OutputIsNat == MaxPrints \in Nat

VARIABLES
  order,      \* what each handler is asked
  at,         \* where it is
  left,       \* messages it has still to write
  inTable,    \* the sessions in the map
  reading,    \* the handlers that hold the lock of the table for reading
  stdinLock,  \* who holds the mutex of each child's stdin
  stdin,      \* messages in its pipe
  alive,      \* the children that run
  deaf,       \* those that may stop reading
  owed,       \* what a child prints before it reads on
  stdout      \* what it printed and nobody took

lockVars == <<order, at, left, inTable, reading, stdinLock, stdin, alive, deaf, owed, stdout>>

childVars == <<stdin, alive, deaf, owed, stdout>>
Free == "free"

LockInit ==
  /\ order \in Orders
  /\ at = [h \in Handlers |-> order[h].kind]
  /\ left = [h \in Handlers |-> 0]
  /\ inTable = Sessions
  /\ reading = {}
  /\ stdinLock = [s \in Sessions |-> Free]
  /\ stdin = [s \in Sessions |-> 0]
  /\ alive = Sessions
  /\ deaf \in Moods
  /\ owed = [s \in Sessions |-> 0]
  /\ stdout = [s \in Sessions |-> 0]

Session(h) == order[h].session

Goto(h, from, to) ==
  /\ at[h] = from
  /\ at' = [at EXCEPT ![h] = to]

\* Nobody writes the table or waits to.
MayRead == \A h \in Handlers : at[h] \notin {"begin waits", "close waits"}

-----------------------------------------------------------------------------
(* POST                                                                    *)

\* acquire()
Acquire(h) ==
  /\ MayRead
  /\ Goto(h, "post", IF Session(h) \in inTable THEN "enter" ELSE "done")
  /\ UNCHANGED <<order, left, inTable, reading, stdinLock, childVars>>

\* forward_and_respond() writes inside with_session().
Enter(h) ==
  /\ MayRead
  /\ \/ /\ Session(h) \in inTable
        /\ Goto(h, "enter", "write")
        /\ reading' = reading \cup {h}
        /\ left' = [left EXCEPT ![h] = Messages]
     \/ /\ Session(h) \notin inTable
        /\ Goto(h, "enter", "count")
        /\ UNCHANGED <<reading, left>>
  /\ UNCHANGED <<order, inTable, stdinLock, childVars>>

TakeStdin(h) ==
  /\ at[h] = "write" /\ left[h] > 0
  /\ stdinLock[Session(h)] = Free
  /\ stdinLock' = [stdinLock EXCEPT ![Session(h)] = h]
  /\ UNCHANGED <<order, at, left, inTable, reading, childVars>>

\* A full pipe blocks, one that is broken fails.
WriteToChild(h) ==
  LET s == Session(h) IN
    /\ stdinLock[s] = h
    /\ stdinLock' = [stdinLock EXCEPT ![s] = Free]
    /\ \/ /\ s \in alive /\ stdin[s] < StdinCap
          /\ stdin' = [stdin EXCEPT ![s] = @ + 1]
          /\ left' = [left EXCEPT ![h] = @ - 1]
          /\ UNCHANGED <<at, reading>>
       \/ /\ s \notin alive
          /\ Goto(h, "write", "count")
          /\ reading' = reading \ {h}
          /\ UNCHANGED <<stdin, left>>
    /\ UNCHANGED <<order, inTable, alive, deaf, owed, stdout>>

Written(h) ==
  /\ left[h] = 0
  /\ Goto(h, "write", "register")
  /\ reading' = reading \ {h}
  /\ UNCHANGED <<order, left, inTable, stdinLock, childVars>>

\* A second with_session(), then the polling with its deadline, then
\* spawn_idle_timer_if_needed().
Register(h) ==
  /\ MayRead
  /\ Goto(h, "register", "collect")
  /\ UNCHANGED <<order, left, inTable, reading, stdinLock, childVars>>

CollectEnds(h) ==
  /\ Goto(h, "collect", "count")
  /\ UNCHANGED <<order, left, inTable, reading, stdinLock, childVars>>

LookAtCount(h) ==
  /\ MayRead
  /\ \E next \in {"done", "generation"} : Goto(h, "count", next)
  /\ UNCHANGED <<order, left, inTable, reading, stdinLock, childVars>>

LookAtGeneration(h) ==
  /\ MayRead
  /\ Goto(h, "generation", "done")
  /\ UNCHANGED <<order, left, inTable, reading, stdinLock, childVars>>

-----------------------------------------------------------------------------
(* DELETE: begin_delete(), and the drain task at its deadline at the       *)
(* latest: complete_close() and the cleanup.                               *)

WaitToWrite(h) ==
  /\ Goto(h, "delete", "begin waits") \/ Goto(h, "drain", "close waits")
  /\ UNCHANGED <<order, left, inTable, reading, stdinLock, childVars>>

BeginDelete(h) ==
  /\ reading = {}
  /\ Goto(h, "begin waits", IF Session(h) \in inTable THEN "drain" ELSE "done")
  /\ UNCHANGED <<order, left, inTable, reading, stdinLock, childVars>>

CloseSession(h) ==
  /\ reading = {}
  /\ Goto(h, "close waits", "kill")
  /\ inTable' = inTable \ {Session(h)}
  /\ UNCHANGED <<order, left, reading, stdinLock, childVars>>

\* What the child did not read is gone, what it printed is there.
Ends(s) ==
  /\ alive' = alive \ {s}
  /\ stdin' = [stdin EXCEPT ![s] = 0]
  /\ owed' = [owed EXCEPT ![s] = 0]

\* kill() takes the mutex, then its signals end the child.
Kill(h) ==
  /\ stdinLock[Session(h)] = Free
  /\ Goto(h, "kill", "done")
  /\ Ends(Session(h))
  /\ UNCHANGED <<order, left, inTable, reading, stdinLock, deaf, stdout>>

-----------------------------------------------------------------------------
(* The child (external) prints before it reads on, and the relay thread,   *)
(* which holds the SessionData and not the table's lock, takes it.         *)

ChildReads(s) ==
  /\ s \in alive /\ stdin[s] > 0 /\ owed[s] = 0
  /\ stdin' = [stdin EXCEPT ![s] = @ - 1]
  /\ \E n \in 0..MaxPrints : owed' = [owed EXCEPT ![s] = n]
  /\ UNCHANGED <<order, at, left, inTable, reading, stdinLock, alive, deaf, stdout>>

ChildPrints(s) ==
  /\ s \in alive /\ owed[s] > 0 /\ stdout[s] < StdoutCap
  /\ owed' = [owed EXCEPT ![s] = @ - 1]
  /\ stdout' = [stdout EXCEPT ![s] = @ + 1]
  /\ UNCHANGED <<order, at, left, inTable, reading, stdinLock, stdin, alive, deaf>>

ChildExits(s) ==
  /\ s \in alive
  /\ Ends(s)
  /\ UNCHANGED <<order, at, left, inTable, reading, stdinLock, deaf, stdout>>

RelayMayRoute_UnderLock == MayRead
RelayMayRoute == TRUE

RelayTakes(s) ==
  /\ stdout[s] > 0 /\ RelayMayRoute
  /\ stdout' = [stdout EXCEPT ![s] = @ - 1]
  /\ UNCHANGED <<order, at, left, inTable, reading, stdinLock, stdin, alive, deaf, owed>>

-----------------------------------------------------------------------------
Handle(h) ==
  \/ Acquire(h) \/ Enter(h) \/ TakeStdin(h) \/ WriteToChild(h) \/ Written(h)
  \/ Register(h) \/ CollectEnds(h) \/ LookAtCount(h) \/ LookAtGeneration(h)
  \/ WaitToWrite(h) \/ BeginDelete(h) \/ CloseSession(h) \/ Kill(h)

LockNext ==
  \/ \E h \in Handlers : Handle(h)
  \/ \E s \in Sessions : ChildReads(s) \/ ChildPrints(s) \/ ChildExits(s) \/ RelayTakes(s)

\* Threads run and deadlines pass.  A child prints what it has while somebody
\* takes it, and reads on, unless it is deaf.
LockSpec ==
  /\ LockInit /\ [][LockNext]_lockVars
  /\ \A h \in Handlers : WF_lockVars(Handle(h))
  /\ \A s \in Sessions :
       /\ WF_lockVars(RelayTakes(s)) /\ WF_lockVars(ChildPrints(s))
       /\ WF_lockVars(s \notin deaf /\ ChildReads(s))

-----------------------------------------------------------------------------
(* Properties                                                              *)

\* A handler waits for a child that will not read, with the table's lock.
Jammed(s) ==
  /\ s \in alive \cap deaf /\ stdin[s] = StdinCap
  /\ stdinLock[s] \in reading

\* "Deadlock prevention" (PRD.md): children that read whenever their output
\* is taken never make handlers wait for each other, however POSTs with the
\* table's lock, writers queued before readers, and full pipes in both
\* directions meet.  Every handler, of any session, ends: unless one child
\* stops to read while it is written to, which then may stop them all.
NobodyStarves ==
  \A h \in Handlers : <>(at[h] = "done") \/ <>[](\E s \in Sessions : Jammed(s))
=============================================================================
