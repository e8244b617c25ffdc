-------------------------- MODULE SessionLifecycle --------------------------
(***************************************************************************)
(* What the session table promises its callers, without locks, counters,   *)
(* generations or metrics: a session is entered only while active, a       *)
(* session that is retired has nobody inside and nobody ever enters it     *)
(* again, an eviction may tear a session from under its holders but is on  *)
(* record as one, and a session that left the table is disposed of once.   *)
(***************************************************************************)
EXTENDS Naturals, FiniteSets

CONSTANTS SessionIds, Tasks, MaxSessions

VARIABLES
  life,      \* "Unused", "Active", "Closing", "Closed", "Disposed"
  holders,   \* for each session, the tasks inside it
  evicted    \* sessions closed without waiting for their holders

lifeVars == <<life, holders, evicted>>

Live == {s \in SessionIds : life[s] \in {"Active", "Closing"}}

LifeInit ==
  /\ life = [s \in SessionIds |-> "Unused"]
  /\ holders = [s \in SessionIds |-> {}]
  /\ evicted = {}

Open(s) ==
  /\ life[s] = "Unused"
  /\ Cardinality(Live) < MaxSessions
  /\ life' = [life EXCEPT ![s] = "Active"]
  /\ UNCHANGED <<holders, evicted>>

Enter(t, s) ==
  /\ life[s] = "Active"
  /\ \A r \in SessionIds : t \notin holders[r]
  /\ holders' = [holders EXCEPT ![s] = @ \cup {t}]
  /\ UNCHANGED <<life, evicted>>

Leave(t, s) ==
  /\ t \in holders[s]
  /\ holders' = [holders EXCEPT ![s] = @ \ {t}]
  /\ UNCHANGED <<life, evicted>>

StartClosing(s) ==
  /\ life[s] = "Active"
  /\ life' = [life EXCEPT ![s] = "Closing"]
  /\ UNCHANGED <<holders, evicted>>

Retire(s) ==
  /\ s \in Live
  /\ holders[s] = {}
  /\ life' = [life EXCEPT ![s] = "Closed"]
  /\ UNCHANGED <<holders, evicted>>

Evict(S) ==
  /\ S # {}
  /\ S \subseteq Live
  /\ life' = [s \in SessionIds |-> IF s \in S THEN "Closed" ELSE life[s]]
  /\ evicted' = evicted \cup S
  /\ UNCHANGED holders

Dispose(s) ==
  /\ life[s] = "Closed"
  /\ life' = [life EXCEPT ![s] = "Disposed"]
  /\ UNCHANGED <<holders, evicted>>

LifeNext ==
  \/ \E s \in SessionIds :
       Open(s) \/ StartClosing(s) \/ Retire(s) \/ Dispose(s)
  \/ \E t \in Tasks, s \in SessionIds : Enter(t, s) \/ Leave(t, s)
  \/ \E S \in SUBSET SessionIds : Evict(S)

LifeSpec == LifeInit /\ [][LifeNext]_lifeVars
=============================================================================
