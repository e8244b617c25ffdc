------------------------ MODULE SessionManagerProofs ------------------------
(***************************************************************************)
(* Proofs about SessionManager, for every finite set of sessions and tasks *)
(* and every limit: IInv is inductive, so its conjuncts are invariants,    *)
(* and every step of the table is a step of SessionLifecycle or a stutter. *)
(***************************************************************************)
EXTENDS SessionManager, FiniteSetTheorems, TLAPS

USE SessionIdsFinite, TasksFinite, LimitsAreNat, NoSessionIsNoId

-----------------------------------------------------------------------------
(* The four operations that take sessions out of the map, seen as one.     *)

Ways == {"force", "drain", "clear", "idle"}

Removal(t, S, how) ==
  /\ Remove(t, S, how)
  /\ pc[t] \in {"ready", "recheck"}
  /\ WriteLockFree
  /\ S \subseteq InMap
  /\ S # {}
  /\ how \in Ways
  /\ how \in {"idle", "drain"} =>
       \E s \in SessionIds : S = {s} /\ accessCount[s] = 0
  /\ arg' \in [Tasks -> Arg]
  /\ \A u \in Tasks : u # t => arg'[u] = arg[u]

LEMMA RemovalShape ==
  ASSUME IInv, NEW t \in Tasks,
         \/ \E s \in SessionIds : CompleteClose(t, s) \/ TryDrainClose(t, s)
         \/ Clear(t)
         \/ IdleClose(t)
  PROVE  \E S \in SUBSET SessionIds, how \in Ways : Removal(t, S, how)
<1>. USE DEF IInv, TypeOK, Removal, InMap, Ways
<1>1. ASSUME NEW s \in SessionIds, CompleteClose(t, s)
      PROVE  Removal(t, {s}, "force")
  BY <1>1 DEF CompleteClose
<1>2. ASSUME NEW s \in SessionIds, TryDrainClose(t, s)
      PROVE  Removal(t, {s}, "drain")
  BY <1>2 DEF TryDrainClose, Drained
<1>3. ASSUME Clear(t)
      PROVE  Removal(t, InMap, "clear")
  BY <1>3 DEF Clear
<1>4. ASSUME IdleClose(t)
      PROVE  Removal(t, {arg[t].id}, "idle")
  <2>1. arg[t].id \in SessionIds
    BY <1>4 DEF IdleClose, Bookkeeping
  <2>2. NoArg \in Arg
    BY DEF NoArg, Arg
  <2>. QED
    BY <1>4, <2>1, <2>2 DEF IdleClose, StillIdle, IdleAt
<1>5. InMap \in SUBSET SessionIds
  OBVIOUS
<1>6. arg[t].id \in SessionIds \/ ~IdleClose(t)
  BY DEF IdleClose, Bookkeeping
<1>. HIDE DEF Removal, InMap, TypeOK, Ways
<1>7. "force" \in Ways /\ "drain" \in Ways /\ "clear" \in Ways /\ "idle" \in Ways
  BY DEF Ways
<1>8. \A s \in SessionIds : {s} \in SUBSET SessionIds
  OBVIOUS
<1>. QED
  BY <1>1, <1>2, <1>3, <1>4, <1>5, <1>6, <1>7, <1>8, Zenon

\* The cases every step lemma goes through.
LEMMA StepCases ==
  ASSUME IInv, [Next]_vars
  PROVE  \/ UNCHANGED vars
         \/ \E t \in Tasks :
              \/ AcquireBump(t)
              \/ DropGuard(t)
              \/ IdleAbandon(t)
              \/ SubGauge(t)
              \/ \E s \in SessionIds : \/ Create(t, s)
                                      \/ AcquireCount(t, s)
                                      \/ BeginDelete(t, s)
                                      \/ IdleCheck(t, s, timeoutGen[s])
                                      \/ RunCleanup(t, s)
              \/ \E S \in SUBSET SessionIds, how \in Ways : Removal(t, S, how)
<1>1. CASE Next
  <2>1. PICK t \in Tasks :
          \/ Continue(t) \/ DropGuard(t) \/ Clear(t) \/ IdleClose(t)
          \/ IdleAbandon(t)
          \/ \E s \in SessionIds :
               \/ Create(t, s) \/ AcquireCount(t, s) \/ BeginDelete(t, s)
               \/ CompleteClose(t, s) \/ TryDrainClose(t, s)
               \/ IdleCheck(t, s, timeoutGen[s])
    BY <1>1, Zenon DEF Next
  <2>2. CASE \/ Clear(t) \/ IdleClose(t)
             \/ \E s \in SessionIds : CompleteClose(t, s) \/ TryDrainClose(t, s)
    BY <2>2, RemovalShape, Zenon
  <2>. QED
    BY <2>1, <2>2, Zenon DEF Continue
<1>. QED
  BY <1>1, Zenon

-----------------------------------------------------------------------------
(* What each kind of step leaves of the parts of the invariant.            *)

LEMMA InitEstablishes == Init => IInv
<1> SUFFICES ASSUME Init PROVE IInv
  OBVIOUS
<1>1. TypeOK
  BY DEF Init, TypeOK, NoArg, Arg
<1>2. Bookkeeping /\ CleanupOwedOnce /\ RetiredIsQuiet
  BY DEF Init, Bookkeeping, CleanupOwedOnce, RetiredIsQuiet
<1>3. \A s \in SessionIds : Holders(s) = {}
  BY DEF Init, Holders
<1>4. CountIsHolders
  BY <1>3, FS_EmptySet DEF Init, CountIsHolders
<1>5. InMap \cup Uncounted = {}
  BY DEF Init, InMap, Uncounted
<1>. QED
  BY <1>1, <1>2, <1>4, <1>5, FS_EmptySet DEF IInv, GaugeExact, Init

LEMMA CardinalityDisjoint ==
  ASSUME NEW A, NEW B, IsFiniteSet(A), IsFiniteSet(B), A \cap B = {}
  PROVE  Cardinality(A \cup B) = Cardinality(A) + Cardinality(B)
<1>1. Cardinality(A) \in Nat /\ Cardinality(B) \in Nat
  BY FS_CardinalityType
<1>2. Cardinality(A \cap B) = 0
  BY FS_EmptySet
<1>3. Cardinality(A \cup B)
        = Cardinality(A) + Cardinality(B) - Cardinality(A \cap B)
  BY FS_Union, Zenon
<1>. QED
  BY <1>1, <1>2, <1>3

LEMMA SetsAreFinite ==
  ASSUME IInv
  PROVE  /\ \A s \in SessionIds : IsFiniteSet(Holders(s))
         /\ InMap \cup Uncounted \subseteq SessionIds
         /\ IsFiniteSet(InMap \cup Uncounted)
         /\ \A t \in Tasks : IsFiniteSet(batch[t])
<1>1. InMap \cup Uncounted \subseteq SessionIds
  BY DEF IInv, TypeOK, InMap, Uncounted
<1>2. \A s \in SessionIds : Holders(s) \subseteq Tasks
  BY DEF Holders
<1>. QED
  BY <1>1, <1>2, FS_Subset DEF IInv, TypeOK

\* A counted guard makes the counter positive, so DropGuard stays in Nat.
LEMMA HeldIsCounted ==
  ASSUME IInv, NEW t \in Tasks, guard[t] # NoSession
  PROVE  guard[t] \in SessionIds /\ accessCount[guard[t]] > 0
<1>1. guard[t] \in SessionIds /\ t \in Holders(guard[t])
  BY DEF IInv, TypeOK, Holders
<1>2. Cardinality(Holders(guard[t])) # 0
  BY <1>1, SetsAreFinite, FS_EmptySet
<1>. QED
  BY <1>1, <1>2 DEF IInv, TypeOK, CountIsHolders

\* What the gauge still has to lose is at least what it loses next.
LEMMA GaugeCoversBatch ==
  ASSUME IInv, NEW t \in Tasks, pc[t] \in {"gauge", "gaugeIdle"}
  PROVE  GaugeAfter(t) \in Nat
<1>1. batch[t] \subseteq InMap \cup Uncounted
  BY DEF Uncounted
<1>2. Cardinality(batch[t]) <= Cardinality(InMap \cup Uncounted)
  BY <1>1, SetsAreFinite, FS_Subset
<1>3. Cardinality(batch[t]) \in Nat
  BY SetsAreFinite, FS_CardinalityType
<1>. QED
  BY <1>2, <1>3 DEF IInv, TypeOK, GaugeExact, GaugeAfter

LEMMA TypeStep ==
  ASSUME IInv, [Next]_vars
  PROVE  TypeOK'
<1>. USE DEF TypeOK
<1>0. TypeOK
  BY DEF IInv
<1>1. CASE UNCHANGED vars
  BY <1>0, <1>1 DEF vars
<1>2. ASSUME NEW t \in Tasks, NEW s \in SessionIds,
             Create(t, s) \/ AcquireCount(t, s) \/ BeginDelete(t, s)
      PROVE  TypeOK'
  BY <1>0, <1>2 DEF Create, AcquireCount, BeginDelete
<1>3. ASSUME NEW t \in Tasks, AcquireBump(t)
      PROVE  TypeOK'
  <2>1. guard[t] \in SessionIds
    BY <1>3 DEF AcquireBump, IInv, Bookkeeping
  <2>. QED
    BY <1>0, <1>3, <2>1 DEF AcquireBump
<1>4. ASSUME NEW t \in Tasks, DropGuard(t)
      PROVE  TypeOK'
  <2>1. guard[t] \in SessionIds /\ Released(guard[t]) \in Nat
    BY <1>0, <1>4, HeldIsCounted DEF DropGuard, Released
  <2>. QED
    BY <1>0, <1>4, <2>1 DEF DropGuard
<1>5. ASSUME NEW t \in Tasks, NEW S \in SUBSET SessionIds, NEW how \in Ways,
             Removal(t, S, how)
      PROVE  TypeOK'
  BY <1>0, <1>5 DEF Removal, Remove, Ways
<1>6. ASSUME NEW t \in Tasks, NEW s \in SessionIds,
             IdleCheck(t, s, timeoutGen[s])
      PROVE  TypeOK'
  <2>1. [id |-> s, gen |-> timeoutGen[s]] \in Arg
    BY <1>0 DEF Arg
  <2>. QED
    BY <1>0, <1>6, <2>1 DEF IdleCheck
<1>7. ASSUME NEW t \in Tasks, IdleAbandon(t)
      PROVE  TypeOK'
  BY <1>0, <1>7 DEF IdleAbandon, NoArg, Arg
<1>8. ASSUME NEW t \in Tasks, SubGauge(t)
      PROVE  TypeOK'
  <2>1. GaugeAfter(t) \in Nat
    BY <1>8, GaugeCoversBatch DEF SubGauge
  <2>. QED
    BY <1>0, <1>8, <2>1 DEF SubGauge
<1>9. ASSUME NEW t \in Tasks, NEW s \in SessionIds, RunCleanup(t, s)
      PROVE  TypeOK'
  BY <1>0, <1>9 DEF RunCleanup, AfterCleanup
<1>. HIDE DEF TypeOK
<1>. QED
  BY <1>1, <1>2, <1>3, <1>4, <1>5, <1>6, <1>7, <1>8, <1>9, StepCases, Zenon

LEMMA BookkeepingStep ==
  ASSUME IInv, [Next]_vars
  PROVE  Bookkeeping'
<1>. USE DEF Bookkeeping
<1>0. TypeOK /\ Bookkeeping
  BY DEF IInv
<1>1. CASE UNCHANGED vars
  BY <1>0, <1>1 DEF vars
<1>2. ASSUME NEW t \in Tasks, NEW s \in SessionIds,
             Create(t, s) \/ AcquireCount(t, s) \/ BeginDelete(t, s)
      PROVE  Bookkeeping'
  BY <1>0, <1>2 DEF Create, AcquireCount, BeginDelete, TypeOK
<1>3. ASSUME NEW t \in Tasks, AcquireBump(t) \/ IdleAbandon(t) \/ SubGauge(t)
      PROVE  Bookkeeping'
  BY <1>0, <1>3 DEF AcquireBump, IdleAbandon, SubGauge, TypeOK
<1>4. ASSUME NEW t \in Tasks, DropGuard(t)
      PROVE  Bookkeeping'
  BY <1>0, <1>4 DEF DropGuard, TypeOK
<1>5. ASSUME NEW t \in Tasks, NEW S \in SUBSET SessionIds, NEW how \in Ways,
             Removal(t, S, how)
      PROVE  Bookkeeping'
  BY <1>0, <1>5 DEF Removal, Remove, Ways, InMap, TypeOK
<1>6. ASSUME NEW t \in Tasks, NEW s \in SessionIds,
             IdleCheck(t, s, timeoutGen[s])
      PROVE  Bookkeeping'
  BY <1>0, <1>6 DEF IdleCheck, TypeOK
<1>7. ASSUME NEW t \in Tasks, NEW s \in SessionIds, RunCleanup(t, s)
      PROVE  Bookkeeping'
  BY <1>0, <1>7 DEF RunCleanup, TypeOK
<1>. HIDE DEF Bookkeeping
<1>. QED
  BY <1>1, <1>2, <1>3, <1>4, <1>5, <1>6, <1>7, StepCases, Zenon

\* Only acquire() and the drop of a guard touch counters and guards.
LEMMA CountStep ==
  ASSUME IInv, [Next]_vars
  PROVE  CountIsHolders'
<1>0. TypeOK /\ CountIsHolders
  BY DEF IInv
<1>1. CASE UNCHANGED <<accessCount, guard>>
  BY <1>0, <1>1 DEF CountIsHolders, Holders
<1>2. ASSUME NEW t \in Tasks, NEW s \in SessionIds, AcquireCount(t, s)
      PROVE  CountIsHolders'
  <2>1. t \notin Holders(s)
    BY <1>2 DEF AcquireCount, Holders
  <2>2. Holders(s)' = Holders(s) \cup {t}
    BY <1>0, <1>2 DEF AcquireCount, Holders, TypeOK
  <2>3. \A r \in SessionIds : r # s => Holders(r)' = Holders(r)
    BY <1>0, <1>2 DEF AcquireCount, Holders, TypeOK
  <2>4. Cardinality(Holders(s) \cup {t}) = Cardinality(Holders(s)) + 1
    BY <2>1, SetsAreFinite, FS_AddElement
  <2>. QED
    BY <1>0, <1>2, <2>2, <2>3, <2>4 DEF AcquireCount, CountIsHolders, TypeOK
<1>3. ASSUME NEW t \in Tasks, DropGuard(t)
      PROVE  CountIsHolders'
  <2>1. PICK s \in SessionIds : guard[t] = s /\ s # NoSession
    BY <1>0, <1>3 DEF DropGuard, TypeOK
  <2>2. Holders(s)' = Holders(s) \ {t}
    BY <1>0, <1>3, <2>1 DEF DropGuard, Holders, TypeOK
  <2>3. \A r \in SessionIds : r # s => Holders(r)' = Holders(r)
    BY <1>0, <1>3, <2>1 DEF DropGuard, Holders, TypeOK
  <2>4. t \in Holders(s)
    BY <2>1 DEF Holders
  <2>5. Cardinality(Holders(s) \ {t}) = Cardinality(Holders(s)) - 1
    BY <2>4, SetsAreFinite, FS_RemoveElement
  <2>6. accessCount' = [accessCount EXCEPT ![s] = accessCount[s] - 1]
    BY <1>3, <2>1 DEF DropGuard, Released
  <2>. QED
    BY <1>0, <2>2, <2>3, <2>5, <2>6 DEF CountIsHolders, TypeOK
<1>. QED
  BY <1>1, <1>2, <1>3, StepCases
     DEF vars, AcquireBump, IdleAbandon, SubGauge, Create, BeginDelete,
         IdleCheck, RunCleanup, Removal, Remove

LEMMA OwedStep ==
  ASSUME IInv, [Next]_vars
  PROVE  CleanupOwedOnce'
<1>. USE DEF CleanupOwedOnce
<1>0. TypeOK /\ Bookkeeping /\ CleanupOwedOnce
  BY DEF IInv
<1>1. CASE UNCHANGED <<state, batch, cleaned>>
  BY <1>0, <1>1
<1>2. ASSUME NEW t \in Tasks, NEW s \in SessionIds,
             Create(t, s) \/ BeginDelete(t, s)
      PROVE  CleanupOwedOnce'
  BY <1>0, <1>2 DEF Create, BeginDelete, TypeOK
<1>3. ASSUME NEW t \in Tasks, NEW S \in SUBSET SessionIds, NEW how \in Ways,
             Removal(t, S, how)
      PROVE  CleanupOwedOnce'
  <2>1. batch[t] = {}
    BY <1>0, <1>3 DEF Removal, Bookkeeping
  <2>2. \A s \in S : state[s] # "Closed"
    BY <1>3 DEF Removal, InMap
  <2>3. ASSUME NEW s \in S
        PROVE  cleaned[s] = 0
    <3>1. cleaned[s] \in Nat /\ cleaned[s] <= 1
      BY <1>0 DEF TypeOK
    <3>2. cleaned[s] # 1
      BY <1>0, <2>2
    <3>. QED
      BY <3>1, <3>2
  <2>4. \A s \in S : \A u \in Tasks : s \notin batch[u]
    BY <1>0, <2>2 DEF TypeOK
  <2>5. /\ batch'[t] = S
        /\ \A u \in Tasks : u # t => batch'[u] = batch[u]
        /\ \A s \in SessionIds :
             state'[s] = IF s \in S THEN "Closed" ELSE state[s]
        /\ cleaned' = cleaned
    BY <1>0, <1>3 DEF Removal, Remove, TypeOK
  <2>6. ASSUME NEW s \in SessionIds
        PROVE  /\ cleaned'[s] <= 1
               /\ cleaned'[s] = 1 => state'[s] = "Closed"
               /\ state'[s] = "Closed" /\ cleaned'[s] = 0
                    <=> \E u \in Tasks : s \in batch'[u]
    <3>1. CASE s \in S
      BY <1>0, <2>3, <2>5, <3>1
    <3>2. CASE s \notin S
      BY <1>0, <2>1, <2>5, <3>2
    <3>. QED
      BY <3>1, <3>2
  <2>7. ASSUME NEW u \in Tasks, NEW v \in Tasks, u # v
        PROVE  batch'[u] \cap batch'[v] = {}
    BY <1>0, <2>4, <2>5, <2>7
  <2>. QED
    BY <2>6, <2>7
<1>4. ASSUME NEW t \in Tasks, NEW s \in SessionIds, RunCleanup(t, s)
      PROVE  CleanupOwedOnce'
  <2>1. cleaned[s] = 0 /\ state[s] = "Closed"
    BY <1>0, <1>4 DEF RunCleanup, TypeOK
  <2>. QED
    BY <1>0, <1>4, <2>1 DEF RunCleanup, AfterCleanup, TypeOK
<1>. HIDE DEF CleanupOwedOnce
<1>. QED
  BY <1>1, <1>2, <1>3, <1>4, StepCases
     DEF vars, AcquireBump, IdleAbandon, SubGauge, AcquireCount, DropGuard,
         IdleCheck

LEMMA QuietStep ==
  ASSUME IInv, [Next]_vars
  PROVE  RetiredIsQuiet'
<1>. USE DEF RetiredIsQuiet
<1>0. TypeOK /\ Bookkeeping /\ RetiredIsQuiet
  BY DEF IInv
<1>1. CASE UNCHANGED <<closedBy, guard>>
  BY <1>0, <1>1 DEF Holders
<1>2. ASSUME NEW t \in Tasks, NEW s \in SessionIds, AcquireCount(t, s)
      PROVE  RetiredIsQuiet'
  BY <1>0, <1>2 DEF AcquireCount, Bookkeeping, Holders, TypeOK
<1>3. ASSUME NEW t \in Tasks, DropGuard(t)
      PROVE  RetiredIsQuiet'
  BY <1>0, <1>3 DEF DropGuard, Holders, TypeOK
<1>4. ASSUME NEW t \in Tasks, NEW S \in SUBSET SessionIds, NEW how \in Ways,
             Removal(t, S, how)
      PROVE  RetiredIsQuiet'
  <2>1. \A s \in SessionIds : accessCount[s] = 0 => Holders(s) = {}
    BY SetsAreFinite, FS_EmptySet DEF IInv, CountIsHolders
  <2>2. \A s \in SessionIds : Holders(s)' = Holders(s)
    BY <1>4 DEF Removal, Remove, Holders
  <2>3. \A s \in SessionIds :
          closedBy'[s] = IF s \in S THEN how ELSE closedBy[s]
    BY <1>4 DEF Removal, Remove
  <2>4. how \in {"idle", "drain"} => \A s \in S : Holders(s) = {}
    BY <1>4, <2>1 DEF Removal
  <2>. QED
    BY <1>0, <2>2, <2>3, <2>4
<1>. HIDE DEF RetiredIsQuiet
<1>. QED
  BY <1>1, <1>2, <1>3, <1>4, StepCases
     DEF vars, AcquireBump, IdleAbandon, SubGauge, Create, BeginDelete,
         IdleCheck, RunCleanup

\* The gauge follows the map: only create(), the removals and SubGauge matter.
LEMMA GaugeStep ==
  ASSUME IInv, [Next]_vars
  PROVE  GaugeExact'
<1>0. TypeOK /\ Bookkeeping /\ CleanupOwedOnce /\ GaugeExact
  BY DEF IInv
<1>. DEFINE Counted == InMap \cup Uncounted
<1>1. IsFiniteSet(Counted) /\ Counted \subseteq SessionIds
  BY SetsAreFinite
<1>2. CASE UNCHANGED <<state, batch, pc, activeSessions>>
  BY <1>0, <1>2 DEF GaugeExact, InMap, Uncounted
<1>3. ASSUME NEW t \in Tasks, NEW s \in SessionIds, Create(t, s)
      PROVE  GaugeExact'
  <2>1. InMap' = InMap \cup {s} /\ s \notin InMap
    BY <1>0, <1>3 DEF Create, InMap, TypeOK
  <2>2. Uncounted' = Uncounted
    BY <1>3 DEF Create, Uncounted
  <2>3. s \notin Uncounted
    BY <1>0, <1>3 DEF Create, Uncounted, CleanupOwedOnce
  <2>4. Cardinality(Counted \cup {s}) = Cardinality(Counted) + 1
    BY <1>1, <2>1, <2>3, FS_AddElement
  <2>5. Counted' = Counted \cup {s}
    BY <2>1, <2>2
  <2>. QED
    BY <1>0, <1>3, <2>4, <2>5 DEF Create, GaugeExact
<1>4. ASSUME NEW t \in Tasks, UNCHANGED <<batch, activeSessions>>,
             InMap' = InMap,
             \A u \in Tasks : u # t => pc'[u] = pc[u],
             {pc[t], pc'[t]} \cap {"gauge", "gaugeIdle"} = {}
      PROVE  GaugeExact'
  <2>1. Uncounted' = Uncounted
    BY <1>4 DEF Uncounted
  <2>. QED
    BY <1>0, <1>4, <2>1 DEF GaugeExact
<1>5. ASSUME NEW t \in Tasks, NEW S \in SUBSET SessionIds, NEW how \in Ways,
             Removal(t, S, how)
      PROVE  GaugeExact'
  <2>1. /\ batch' = [batch EXCEPT ![t] = S]
        /\ pc'[t] \in {"gauge", "gaugeIdle"}
        /\ \A u \in Tasks : u # t => pc'[u] = pc[u]
        /\ pc[t] \notin {"gauge", "gaugeIdle"}
    BY <1>0, <1>5 DEF Removal, Remove, TypeOK
  <2>2. Uncounted' = Uncounted \cup S
    BY <1>0, <2>1 DEF Uncounted, TypeOK
  <2>3. InMap' = InMap \ S /\ S \subseteq InMap
    BY <1>0, <1>5 DEF Removal, Remove, InMap, TypeOK
  <2>4. Counted' = Counted
    BY <2>2, <2>3
  <2>. QED
    BY <1>0, <1>5, <2>4 DEF Removal, Remove, GaugeExact
<1>6. ASSUME NEW t \in Tasks, SubGauge(t)
      PROVE  GaugeExact'
  <2>1. InMap' = InMap
    BY <1>6 DEF SubGauge, InMap
  <2>2. /\ pc[t] \in {"gauge", "gaugeIdle"}
        /\ pc'[t] \notin {"gauge", "gaugeIdle"}
        /\ \A u \in Tasks : u # t => pc'[u] = pc[u]
        /\ batch' = batch
    BY <1>0, <1>6 DEF SubGauge, TypeOK
  <2>3. Uncounted' = Uncounted \ batch[t] /\ batch[t] \subseteq Uncounted
    BY <1>0, <2>2 DEF Uncounted, CleanupOwedOnce
  <2>4. InMap \cap batch[t] = {}
    BY <1>0 DEF InMap, CleanupOwedOnce, TypeOK
  <2>5. Counted = Counted' \cup batch[t] /\ Counted' \cap batch[t] = {}
    BY <2>1, <2>3, <2>4
  <2>6. IsFiniteSet(Counted') /\ IsFiniteSet(batch[t])
    BY <1>1, <2>5, SetsAreFinite, FS_Subset
  <2>7. Cardinality(Counted) = Cardinality(Counted') + Cardinality(batch[t])
    BY <2>5, <2>6, CardinalityDisjoint
  <2>8. Cardinality(Counted') \in Nat /\ Cardinality(batch[t]) \in Nat
    BY <2>6, FS_CardinalityType
  <2>. QED
    BY <1>0, <1>6, <2>7, <2>8 DEF SubGauge, GaugeAfter, GaugeExact
<1>7. ASSUME NEW t \in Tasks, NEW s \in SessionIds, RunCleanup(t, s)
      PROVE  GaugeExact'
  <2>1. InMap' = InMap /\ activeSessions' = activeSessions
    BY <1>7 DEF RunCleanup, InMap
  <2>2. /\ {pc[t], pc'[t]} \cap {"gauge", "gaugeIdle"} = {}
        /\ \A u \in Tasks : u # t => pc'[u] = pc[u] /\ batch'[u] = batch[u]
    BY <1>0, <1>7 DEF RunCleanup, TypeOK
  <2>3. Uncounted' = Uncounted
    BY <2>2 DEF Uncounted
  <2>. QED
    BY <1>0, <2>1, <2>3 DEF GaugeExact
<1>8. ASSUME NEW t \in Tasks,
             \/ AcquireBump(t) \/ DropGuard(t) \/ IdleAbandon(t)
             \/ \E s \in SessionIds : \/ AcquireCount(t, s)
                                     \/ BeginDelete(t, s)
                                     \/ IdleCheck(t, s, timeoutGen[s])
      PROVE  GaugeExact'
  <2>1. InMap' = InMap
    BY <1>0, <1>8 DEF InMap, TypeOK, AcquireBump, DropGuard, IdleAbandon,
                      AcquireCount, BeginDelete, IdleCheck
  <2>2. /\ UNCHANGED <<batch, activeSessions>>
        /\ \A u \in Tasks : u # t => pc'[u] = pc[u]
        /\ {pc[t], pc'[t]} \cap {"gauge", "gaugeIdle"} = {}
    BY <1>0, <1>8 DEF TypeOK, AcquireBump, DropGuard, IdleAbandon,
                      AcquireCount, BeginDelete, IdleCheck
  <2>. QED
    BY <1>4, <2>1, <2>2
<1>. QED
  BY <1>2, <1>3, <1>5, <1>6, <1>7, <1>8, StepCases DEF vars

LEMMA InvariantStep ==
  ASSUME IInv, [Next]_vars
  PROVE  IInv'
BY TypeStep, BookkeepingStep, CountStep, GaugeStep, OwedStep, QuietStep DEF IInv

-----------------------------------------------------------------------------
(* The theorems.                                                           *)

\* The strengthened invariant of session.rs holds in every reachable state.
THEOREM InductiveInvariant == Spec => []IInv
<1>1. Init => IInv
  BY InitEstablishes
<1>2. IInv /\ [Next]_vars => IInv'
  BY InvariantStep
<1>. QED
  BY <1>1, <1>2, PTL DEF Spec

\* Type correctness of the session table and its callers.
THEOREM TypeCorrect == Spec => []TypeOK
<1>1. IInv => TypeOK
  BY DEF IInv
<1>. QED
  BY <1>1, InductiveInvariant, PTL

\* The access counter of a session is the number of guards alive.
THEOREM CounterCorrect == Spec => []CountIsHolders
<1>1. IInv => CountIsHolders
  BY DEF IInv
<1>. QED
  BY <1>1, InductiveInvariant, PTL

\* active_sessions is the map plus the removals not yet subtracted.
THEOREM GaugeCorrect == Spec => []GaugeExact
<1>1. IInv => GaugeExact
  BY DEF IInv
<1>. QED
  BY <1>1, InductiveInvariant, PTL

\* A removed session's child is killed once, by the task that removed it.
THEOREM CleanupCorrect == Spec => []CleanupOwedOnce
<1>1. IInv => CleanupOwedOnce
  BY DEF IInv
<1>. QED
  BY <1>1, InductiveInvariant, PTL

\* A session closed by the idle timeout or a drain has no request inside.
THEOREM RetirementIsSafe == Spec => []RetiredIsQuiet
<1>1. IInv => RetiredIsQuiet
  BY DEF IInv
<1>. QED
  BY <1>1, InductiveInvariant, PTL

-----------------------------------------------------------------------------
(* Refinement.                                                             *)

\* The instance has its own copy of the standard module.
LEMMA SameCardinality ==
  ASSUME NEW S
  PROVE  Life!Cardinality(S) = Cardinality(S)
BY Zenon DEF Life!Cardinality, Cardinality, Life!IsFiniteSet, IsFiniteSet

\* The map of the implementation is the live set of the lifecycle.
LEMMA LiveIsInMap ==
  ASSUME IInv
  PROVE  Life!Live = InMap
<1>1. \A s \in SessionIds : cleaned[s] # 0 => state[s] = "Closed"
  <2>1. \A s \in SessionIds : cleaned[s] \in Nat /\ cleaned[s] <= 1
    BY DEF IInv, TypeOK, CleanupOwedOnce
  <2>. QED
    BY <2>1 DEF IInv, CleanupOwedOnce
<1>. QED
  BY <1>1 DEF Life!Live, LifeOf, InMap

LEMMA RefinementStep ==
  ASSUME IInv, [Next]_vars
  PROVE  [Life!LifeNext]_(Life!lifeVars)
<1>. USE DEF Life!lifeVars
<1>0. TypeOK /\ Bookkeeping /\ CleanupOwedOnce
  BY DEF IInv
<1>a. Life!Live = InMap
  BY LiveIsInMap
<1>b. \A s \in SessionIds : state[s] # "Closed" => cleaned[s] = 0
  <2>1. \A s \in SessionIds : cleaned[s] \in Nat /\ cleaned[s] <= 1
    BY <1>0 DEF TypeOK, CleanupOwedOnce
  <2>. QED
    BY <1>0, <2>1 DEF CleanupOwedOnce
<1>1. CASE UNCHANGED <<state, guard, cleaned, closedBy>>
  BY <1>1 DEF LifeOf, Holders
<1>2. ASSUME NEW t \in Tasks, NEW s \in SessionIds, Create(t, s)
      PROVE  Life!Open(s)
  <2>1. Cardinality(Life!Live) < MaxSessions
    BY <1>2, <1>a DEF Create, HasRoom
  <2>2. LifeOf(s) = "Unused" /\ LifeOf(s)' = "Active"
    BY <1>0, <1>2, <1>b DEF Create, LifeOf, TypeOK
  <2>3. \A r \in SessionIds : r # s => LifeOf(r)' = LifeOf(r)
    BY <1>0, <1>2 DEF Create, LifeOf, TypeOK
  <2>4. UNCHANGED <<guard, closedBy>>
    BY <1>2 DEF Create
  <2>5. \A r \in SessionIds : Holders(r)' = Holders(r)
    BY <2>4 DEF Holders
  <2>6. [r \in SessionIds |-> LifeOf(r)]'
          = [[r \in SessionIds |-> LifeOf(r)] EXCEPT ![s] = "Active"]
    BY <2>2, <2>3
  <2>7. Life!Cardinality(Life!Live) < MaxSessions
    BY <2>1, SameCardinality
  <2>. QED
    BY <2>2, <2>4, <2>5, <2>6, <2>7 DEF Life!Open
<1>3. ASSUME NEW t \in Tasks, NEW s \in SessionIds, AcquireCount(t, s)
      PROVE  Life!Enter(t, s)
  <2>1. LifeOf(s) = "Active" /\ UNCHANGED <<state, cleaned, closedBy>>
    BY <1>0, <1>3, <1>b DEF AcquireCount, LifeOf, TypeOK
  <2>2. \A r \in SessionIds : t \notin Holders(r)
    BY <1>3 DEF AcquireCount, Holders
  <2>3. \A r \in SessionIds :
          Holders(r)' = IF r = s THEN Holders(r) \cup {t} ELSE Holders(r)
    BY <1>0, <1>3 DEF AcquireCount, Holders, TypeOK
  <2>. QED
    BY <2>1, <2>2, <2>3 DEF Life!Enter, LifeOf
<1>4. ASSUME NEW t \in Tasks, DropGuard(t)
      PROVE  Life!Leave(t, guard[t])
  <2>1. guard[t] \in SessionIds /\ UNCHANGED <<state, cleaned, closedBy>>
    BY <1>0, <1>4 DEF DropGuard, TypeOK
  <2>2. \A r \in SessionIds :
          Holders(r)' = IF r = guard[t] THEN Holders(r) \ {t} ELSE Holders(r)
    BY <1>0, <1>4 DEF DropGuard, Holders, TypeOK
  <2>3. t \in Holders(guard[t])
    BY DEF Holders
  <2>. QED
    BY <2>1, <2>2, <2>3 DEF Life!Leave, LifeOf
<1>5. ASSUME NEW t \in Tasks, NEW s \in SessionIds, BeginDelete(t, s)
      PROVE  Life!StartClosing(s)
  <2>1. LifeOf(s) = "Active" /\ LifeOf(s)' = "Closing"
    BY <1>0, <1>5, <1>b DEF BeginDelete, LifeOf, TypeOK
  <2>2. \A r \in SessionIds : r # s => LifeOf(r)' = LifeOf(r)
    BY <1>0, <1>5 DEF BeginDelete, LifeOf, TypeOK
  <2>3. UNCHANGED <<guard, closedBy>>
    BY <1>5 DEF BeginDelete
  <2>. QED
    BY <2>1, <2>2, <2>3 DEF Life!StartClosing, Holders
<1>6. ASSUME NEW t \in Tasks, NEW S \in SUBSET SessionIds, NEW how \in Ways,
             Removal(t, S, how)
      PROVE  Life!Evict(S) \/ \E s \in SessionIds : Life!Retire(s)
  <2>1. /\ S \subseteq Life!Live /\ S # {}
        /\ UNCHANGED <<guard, cleaned>>
        /\ \A r \in SessionIds :
             /\ state'[r] = IF r \in S THEN "Closed" ELSE state[r]
             /\ closedBy'[r] = IF r \in S THEN how ELSE closedBy[r]
    BY <1>6, <1>a DEF Removal, Remove
  <2>2. \A r \in S : cleaned[r] = 0 /\ closedBy[r] = "none"
    BY <1>0, <1>6, <1>b DEF Removal, InMap, Bookkeeping
  <2>3. \A r \in SessionIds :
          LifeOf(r)' = IF r \in S THEN "Closed" ELSE LifeOf(r)
    BY <2>1, <2>2 DEF LifeOf
  <2>4. \A r \in SessionIds : Holders(r)' = Holders(r)
    BY <2>1 DEF Holders
  <2>5. CASE how \in {"force", "clear"}
    BY <2>1, <2>2, <2>3, <2>4, <2>5 DEF Life!Evict
  <2>6. CASE how \in {"idle", "drain"}
    <3>1. PICK s \in SessionIds : S = {s} /\ accessCount[s] = 0
      BY <1>6, <2>6 DEF Removal
    <3>2. Holders(s) = {}
      BY <3>1, SetsAreFinite, FS_EmptySet DEF IInv, CountIsHolders
    <3>3. {r \in SessionIds : closedBy[r] \in {"force", "clear"}}'
            = {r \in SessionIds : closedBy[r] \in {"force", "clear"}}
      BY <2>1, <2>2, <2>6
    <3>4. Life!Retire(s)
      BY <2>1, <2>3, <2>4, <3>1, <3>2, <3>3 DEF Life!Retire
    <3>. QED
      BY <3>4
  <2>. QED
    BY <2>5, <2>6 DEF Ways
<1>7. ASSUME NEW t \in Tasks, NEW s \in SessionIds, RunCleanup(t, s)
      PROVE  Life!Dispose(s)
  <2>1. cleaned[s] = 0 /\ state[s] = "Closed"
    BY <1>0, <1>7 DEF RunCleanup, CleanupOwedOnce
  <2>2. LifeOf(s) = "Closed" /\ LifeOf(s)' = "Disposed"
    BY <1>0, <1>7, <2>1 DEF RunCleanup, LifeOf, TypeOK
  <2>3. \A r \in SessionIds : r # s => LifeOf(r)' = LifeOf(r)
    BY <1>0, <1>7 DEF RunCleanup, LifeOf, TypeOK
  <2>4. UNCHANGED <<guard, closedBy>>
    BY <1>7 DEF RunCleanup
  <2>. QED
    BY <2>2, <2>3, <2>4 DEF Life!Dispose, Holders
<1>8. CASE \E t \in Tasks :
             \/ AcquireBump(t) \/ IdleAbandon(t) \/ SubGauge(t)
             \/ \E s \in SessionIds : IdleCheck(t, s, timeoutGen[s])
  BY <1>1, <1>8 DEF AcquireBump, IdleAbandon, SubGauge, IdleCheck
<1>9. CASE UNCHANGED vars
  BY <1>1, <1>9 DEF vars
<1>10. ASSUME NEW t \in Tasks, DropGuard(t)
       PROVE  guard[t] \in SessionIds
  BY <1>0, <1>10 DEF DropGuard, TypeOK
<1>. HIDE DEF Life!lifeVars
<1>. QED
  BY <1>2, <1>3, <1>4, <1>5, <1>6, <1>7, <1>8, <1>9, <1>10, StepCases
     DEF Life!LifeNext

\* The session table implements the lifecycle its callers rely on.
THEOREM LifecycleImplemented == Spec => ImplementsLifecycle
<1>1. Init => Life!LifeInit
  BY DEF Init, Life!LifeInit, LifeOf, Holders
<1>2. IInv /\ [Next]_vars => [Life!LifeNext]_(Life!lifeVars)
  BY RefinementStep
<1>. QED
  BY <1>1, <1>2, InductiveInvariant, PTL
     DEF Spec, ImplementsLifecycle, Life!LifeSpec
=============================================================================
