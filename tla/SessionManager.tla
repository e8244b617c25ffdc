--------------------------- MODULE SessionManager ---------------------------
(***************************************************************************)
(* The session table of the stateful gateway (src/src/session.rs).         *)
(*                                                                         *)
(* A task is any thread or future that calls the manager; it holds at most *)
(* one SessionAccessGuard.  Sections under the RwLock are one step, except *)
(* acquire(), whose two atomic increments happen under the shared (read)   *)
(* lock: between them other readers and guard drops run, writers do not.   *)
(* What follows the lock (the gauge, then the cleanup callback) is steps   *)
(* of its own.  An early return that changes nothing is no step here.      *)
(***************************************************************************)
EXTENDS Integers, FiniteSets

CONSTANTS
  SessionIds,    \* the UUIDs create() can draw; a draw is never repeated
  Tasks,         \* callers of the manager
  MaxSessions,   \* SessionManagerConfig.max_sessions
  MaxGen,        \* bound on timeout_gen, so that TLC terminates
  NoSession      \* "no session": an empty Option

ASSUME SessionIdsFinite == IsFiniteSet(SessionIds)
ASSUME TasksFinite == IsFiniteSet(Tasks)
ASSUME LimitsAreNat == MaxSessions \in Nat /\ MaxGen \in Nat
ASSUME NoSessionIsNoId == NoSession \notin SessionIds

VARIABLES
  state,            \* "Unused" before create(), "Closed" once out of the map
  accessCount,      \* Session.access_count
  timeoutGen,       \* Session.timeout_gen
  activeSessions,   \* Metrics.active_sessions
  sessionTimeouts,  \* Metrics.session_timeouts
  pc,               \* where the task is inside a manager operation
  guard,            \* the session whose SessionAccessGuard the task holds
  arg,              \* the session and generation given to try_idle_close()
  batch,            \* sessions the task took out of the map, cleanup pending
  cleaned,          \* how often the cleanup callback ran for the session
  closedBy          \* history: the operation that took it out of the map

vars == <<state, accessCount, timeoutGen, activeSessions, sessionTimeouts,
          pc, guard, arg, batch, cleaned, closedBy>>

NoArg == [id |-> NoSession, gen |-> 0]
Arg == [id : SessionIds \cup {NoSession}, gen : Nat]

\* The sessions in the HashMap: SessionState::Closed is never stored in it.
InMap == {s \in SessionIds : state[s] \in {"Active", "Closing"}}

\* Tasks whose guard counts against session s.
Holders(s) == {t \in Tasks : guard[t] = s}

\* The write lock is granted only when no acquire() is half-way.
WriteLockFree == \A t \in Tasks : pc[t] # "bump"

Init ==
  /\ state = [s \in SessionIds |-> "Unused"]
  /\ accessCount = [s \in SessionIds |-> 0]
  /\ timeoutGen = [s \in SessionIds |-> 0]
  /\ activeSessions = 0
  /\ sessionTimeouts = 0
  /\ pc = [t \in Tasks |-> "ready"]
  /\ guard = [t \in Tasks |-> NoSession]
  /\ arg = [t \in Tasks |-> NoArg]
  /\ batch = [t \in Tasks |-> {}]
  /\ cleaned = [s \in SessionIds |-> 0]
  /\ closedBy = [s \in SessionIds |-> "none"]

-----------------------------------------------------------------------------
(* create_with_id(), with the fresh id of create().                        *)

HasRoom == Cardinality(InMap) < MaxSessions

Create(t, s) ==
  /\ pc[t] = "ready"
  /\ WriteLockFree
  /\ state[s] = "Unused"
  /\ HasRoom
  /\ state' = [state EXCEPT ![s] = "Active"]
  /\ activeSessions' = activeSessions + 1
  /\ UNCHANGED <<accessCount, timeoutGen, sessionTimeouts, pc, guard, arg,
                 batch, cleaned, closedBy>>

-----------------------------------------------------------------------------
(* acquire(): fetch_add on the count, then, if it was 0, on the generation *)

BumpsGeneration(s) == accessCount[s] = 0

AcquireCount(t, s) ==
  /\ pc[t] = "ready"
  /\ guard[t] = NoSession
  /\ state[s] = "Active"
  /\ timeoutGen[s] < MaxGen
  /\ accessCount' = [accessCount EXCEPT ![s] = @ + 1]
  /\ guard' = [guard EXCEPT ![t] = s]
  /\ pc' = [pc EXCEPT ![t] = IF BumpsGeneration(s) THEN "bump" ELSE "ready"]
  /\ UNCHANGED <<state, timeoutGen, activeSessions, sessionTimeouts, arg,
                 batch, cleaned, closedBy>>

AcquireBump(t) ==
  /\ pc[t] = "bump"
  /\ timeoutGen' = [timeoutGen EXCEPT ![guard[t]] = @ + 1]
  /\ pc' = [pc EXCEPT ![t] = "ready"]
  /\ UNCHANGED <<state, accessCount, activeSessions, sessionTimeouts, guard,
                 arg, batch, cleaned, closedBy>>

(* Drop of the guard: no lock; the counter outlives the map entry.         *)
Released_OnlyInMap(s) == IF s \in InMap THEN accessCount[s] - 1
                                        ELSE accessCount[s]
Released_Twice(s) == accessCount[s] - 2
Released(s) == accessCount[s] - 1

DropGuard(t) ==
  /\ pc[t] = "ready"
  /\ guard[t] # NoSession
  /\ accessCount' = [accessCount EXCEPT ![guard[t]] = Released(guard[t])]
  /\ guard' = [guard EXCEPT ![t] = NoSession]
  /\ UNCHANGED <<state, timeoutGen, activeSessions, sessionTimeouts, pc, arg,
                 batch, cleaned, closedBy>>

-----------------------------------------------------------------------------
(* begin_delete(): Ok(true) is this step, Ok(false) changes nothing.       *)
BeginDelete(t, s) ==
  /\ pc[t] = "ready"
  /\ WriteLockFree
  /\ state[s] = "Active"
  /\ state' = [state EXCEPT ![s] = "Closing"]
  /\ UNCHANGED <<accessCount, timeoutGen, activeSessions, sessionTimeouts, pc,
                 guard, arg, batch, cleaned, closedBy>>

(* The locked section every removal shares: take S out of the map and keep *)
(* the cleanup for after the unlock.                                       *)
Remove(t, S, how) ==
  /\ state' = [s \in SessionIds |-> IF s \in S THEN "Closed" ELSE state[s]]
  /\ closedBy' = [s \in SessionIds |-> IF s \in S THEN how ELSE closedBy[s]]
  /\ batch' = [batch EXCEPT ![t] = S]
  /\ pc' = [pc EXCEPT ![t] = IF how = "idle" THEN "gaugeIdle" ELSE "gauge"]
  /\ UNCHANGED <<accessCount, timeoutGen, activeSessions, sessionTimeouts,
                 guard, cleaned>>

(* complete_close(): whatever the state and the count.                     *)
CompleteClose(t, s) ==
  /\ pc[t] = "ready"
  /\ WriteLockFree
  /\ s \in InMap
  /\ Remove(t, {s}, "force")
  /\ UNCHANGED arg

(* try_drain_close()                                                       *)
Drained_IgnoresCount(s) == state[s] = "Closing"
Drained(s) == state[s] = "Closing" /\ accessCount[s] = 0

TryDrainClose(t, s) ==
  /\ pc[t] = "ready"
  /\ WriteLockFree
  /\ Drained(s)
  /\ Remove(t, {s}, "drain")
  /\ UNCHANGED arg

(* clear()                                                                 *)
Clear(t) ==
  /\ pc[t] = "ready"
  /\ WriteLockFree
  /\ InMap # {}
  /\ Remove(t, InMap, "clear")
  /\ UNCHANGED arg

(* try_idle_close(id, expected_gen): a check under the read lock, then the *)
(* same check and the removal under the write lock.                        *)
IdleAt(s, g) ==
  /\ state[s] = "Active"
  /\ timeoutGen[s] = g
  /\ accessCount[s] = 0

IdleCheck(t, s, g) ==
  /\ pc[t] = "ready"
  /\ IdleAt(s, g)
  /\ arg' = [arg EXCEPT ![t] = [id |-> s, gen |-> g]]
  /\ pc' = [pc EXCEPT ![t] = "recheck"]
  /\ UNCHANGED <<state, accessCount, timeoutGen, activeSessions,
                 sessionTimeouts, guard, batch, cleaned, closedBy>>

StillIdle_NoRecheck(t) == arg[t].id \in InMap
StillIdle(t) == IdleAt(arg[t].id, arg[t].gen)

IdleClose(t) ==
  /\ pc[t] = "recheck"
  /\ WriteLockFree
  /\ StillIdle(t)
  /\ Remove(t, {arg[t].id}, "idle")
  /\ arg' = [arg EXCEPT ![t] = NoArg]

IdleAbandon(t) ==
  /\ pc[t] = "recheck"
  /\ WriteLockFree
  /\ ~StillIdle(t)
  /\ pc' = [pc EXCEPT ![t] = "ready"]
  /\ arg' = [arg EXCEPT ![t] = NoArg]
  /\ UNCHANGED <<state, accessCount, timeoutGen, activeSessions,
                 sessionTimeouts, guard, batch, cleaned, closedBy>>

-----------------------------------------------------------------------------
(* After the unlock: the metrics, then the callback for each session.      *)

GaugeAfter_OnlyOne(t) == activeSessions - 1
GaugeAfter(t) == activeSessions - Cardinality(batch[t])

SubGauge(t) ==
  /\ pc[t] \in {"gauge", "gaugeIdle"}
  /\ activeSessions' = GaugeAfter(t)
  /\ sessionTimeouts' = IF pc[t] = "gaugeIdle" THEN sessionTimeouts + 1
                                               ELSE sessionTimeouts
  /\ pc' = [pc EXCEPT ![t] = "cleanup"]
  /\ UNCHANGED <<state, accessCount, timeoutGen, guard, arg, batch, cleaned,
                 closedBy>>

AfterCleanup_OnlyFirst(t, s) == {}
AfterCleanup(t, s) == batch[t] \ {s}

RunCleanup(t, s) ==
  /\ pc[t] = "cleanup"
  /\ s \in batch[t]
  /\ cleaned' = [cleaned EXCEPT ![s] = @ + 1]
  /\ batch' = [batch EXCEPT ![t] = AfterCleanup(t, s)]
  /\ pc' = [pc EXCEPT ![t] = IF AfterCleanup(t, s) = {} THEN "ready"
                                                        ELSE "cleanup"]
  /\ UNCHANGED <<state, accessCount, timeoutGen, activeSessions,
                 sessionTimeouts, guard, arg, closedBy>>

-----------------------------------------------------------------------------
\* What a task inside an operation does next, without waiting for anyone.
Continue(t) ==
  \/ AcquireBump(t)
  \/ SubGauge(t)
  \/ \E s \in SessionIds : RunCleanup(t, s)

Next ==
  \E t \in Tasks :
    \/ Continue(t)
    \/ DropGuard(t)
    \/ Clear(t)
    \/ IdleClose(t)
    \/ IdleAbandon(t)
    \/ \E s \in SessionIds :
         \/ Create(t, s)
         \/ AcquireCount(t, s)
         \/ BeginDelete(t, s)
         \/ CompleteClose(t, s)
         \/ TryDrainClose(t, s)
         \/ IdleCheck(t, s, timeoutGen[s])

Spec == Init /\ [][Next]_vars

-----------------------------------------------------------------------------
(* Properties                                                              *)

\* Every variable has its type; the gauges never go below zero.
TypeOK ==
  /\ state \in [SessionIds -> {"Unused", "Active", "Closing", "Closed"}]
  /\ accessCount \in [SessionIds -> Nat]
  /\ timeoutGen \in [SessionIds -> Nat]
  /\ activeSessions \in Nat
  /\ sessionTimeouts \in Nat
  /\ pc \in [Tasks -> {"ready", "bump", "recheck", "gauge", "gaugeIdle",
                       "cleanup"}]
  /\ guard \in [Tasks -> SessionIds \cup {NoSession}]
  /\ arg \in [Tasks -> Arg]
  /\ batch \in [Tasks -> SUBSET SessionIds]
  /\ cleaned \in [SessionIds -> Nat]
  /\ closedBy \in [SessionIds -> {"none", "force", "drain", "clear", "idle"}]

\* The atomic counter is the number of guards alive, also for a session that
\* already left the map: what every close decision reads is the truth.
CountIsHolders ==
  \A s \in SessionIds : accessCount[s] = Cardinality(Holders(s))

\* Sessions out of the map whose removal the gauge does not show yet.
Uncounted ==
  UNION {batch[t] : t \in {u \in Tasks : pc[u] \in {"gauge", "gaugeIdle"}}}

\* active_sessions, updated outside the lock by five operations, is the size
\* of the map plus the removals still on their way to it: it never underflows
\* and never forgets a session.
GaugeExact == activeSessions = Cardinality(InMap \cup Uncounted)

\* The child of a session that left the map is killed exactly once: until
\* the callback ran exactly one task owes it, and nobody owes it afterwards.
CleanupOwedOnce ==
  /\ \A s \in SessionIds :
       /\ cleaned[s] <= 1
       /\ cleaned[s] = 1 => state[s] = "Closed"
       /\ state[s] = "Closed" /\ cleaned[s] = 0 <=> \E t \in Tasks : s \in batch[t]
  /\ \A t, u \in Tasks : t # u => batch[t] \cap batch[u] = {}

\* A session taken out by the idle timeout or by a drain has no request
\* inside, and never gets one again: the check and the removal are atomic
\* with respect to acquire(), in spite of the unlocked pre-check.
RetiredIsQuiet ==
  \A s \in SessionIds : closedBy[s] \in {"idle", "drain"} => Holders(s) = {}

\* What ties a task's program counter to its data and a session's history to
\* its state; with the properties above it makes an inductive invariant.
Bookkeeping ==
  /\ \A t \in Tasks :
       /\ pc[t] = "bump" => guard[t] \in SessionIds
       /\ pc[t] = "recheck" => arg[t].id \in SessionIds
       /\ batch[t] # {} <=> pc[t] \in {"gauge", "gaugeIdle", "cleanup"}
  /\ \A s \in SessionIds : closedBy[s] = "none" <=> state[s] # "Closed"

IInv ==
  /\ TypeOK
  /\ Bookkeeping
  /\ CountIsHolders
  /\ GaugeExact
  /\ CleanupOwedOnce
  /\ RetiredIsQuiet

-----------------------------------------------------------------------------
(* Refinement of SessionLifecycle                                          *)

LifeOf(s) == IF cleaned[s] = 0 THEN state[s] ELSE "Disposed"

Life == INSTANCE SessionLifecycle WITH
  life <- [s \in SessionIds |-> LifeOf(s)],
  holders <- [s \in SessionIds |-> Holders(s)],
  evicted <- {s \in SessionIds : closedBy[s] \in {"force", "clear"}}

\* The table with its locks, counters and two-phase removals implements the
\* lifecycle its callers rely on.
ImplementsLifecycle == Life!LifeSpec
=============================================================================
