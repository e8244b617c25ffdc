------------------------- MODULE StatelessHttpProofs --------------------------
(***************************************************************************)
(* Proofs about StatelessHttp, for any finite set of POSTs, any bodies and *)
(* any limit: the permits are exact, on every way out of a handler, and a  *)
(* reply that is a stream is complete and in order.                        *)
(***************************************************************************)
EXTENDS StatelessHttp, FiniteSetTheorems, WellFoundedInduction, TLAPS

LEMMA HoldersAreCounted ==
  /\ IsFiniteSet(Holding) /\ Cardinality(Holding) \in Nat
  /\ IsFiniteSet(InService) /\ Cardinality(InService) \in Nat
  /\ Cardinality(InService) <= Cardinality(Holding)
<1>1. Holding \subseteq Posts /\ InService \subseteq Holding
  BY DEF Holding, InService
<1>2. IsFiniteSet(Holding)
  BY <1>1, PostsAreFinite, FS_Subset
<1>. QED
  BY <1>1, <1>2, FS_Subset, FS_CardinalityType

\* The steps of a handler, and those of a child that do not print.
Handles(p) == TakePermit(p) \/ Handle(p) \/ Writes(p)
ChildEnds(p) == ChildExits(p) \/ ChildIsLost(p) \/ ChildGarbles(p)

\* What each step of a handler does to the permits.
LEMMA HandlerEffect ==
  ASSUME step \in [Posts -> Steps], NEW p \in Posts, Handles(p)
  PROVE  \/ UNCHANGED <<step, active>>
         \/ /\ step' = [step EXCEPT ![p] = step'[p]] /\ step'[p] \in Steps
            /\ \/ /\ step[p] = "new" /\ active' = active + 1
                  /\ step'[p] = IF HasPermit THEN "parse" ELSE "refuse"
               \/ /\ step[p] \in {"refuse", "release"} /\ active' = active - 1
                  /\ step'[p] = "done"
               \/ /\ active' = active
                  /\ {step[p], step'[p]} \cap {"new", "refuse", "done"} = {}
<1>. USE DEF Steps, Goto, Reply
<1>1. CASE TakePermit(p)
  BY <1>1 DEF TakePermit
<1>2. CASE RefusePermit(p)
  BY <1>2 DEF RefusePermit
<1>3. CASE Reject(p) \/ AcceptNotes(p) \/ SpawnChild(p)
  BY <1>3 DEF Reject, AcceptNotes, SpawnChild
<1>4. CASE SendInit(p) \/ SendInitialized(p)
  BY <1>4 DEF SendInit, SendInitialized, Write
<1>5. CASE BufferLine(p)
  BY <1>5 DEF BufferLine
<1>6. CASE InitFails(p)
  BY <1>6 DEF InitFails, InitTimesOut
<1>7. CASE ForwardNext(p)
  BY <1>7 DEF ForwardNext, Write
<1>8. CASE CollectLine(p)
  BY <1>8 DEF CollectLine
<1>9. CASE AcceptResponses(p) \/ CollectEnds(p)
  BY <1>9 DEF AcceptResponses, CollectEnds, Respond
<1>10. CASE Kill(p)
  BY <1>10 DEF Kill
<1>11. CASE Release(p)
  BY <1>11 DEF Release, PermitsAfter
<1>. QED
  BY <1>1, <1>2, <1>3, <1>4, <1>5, <1>6, <1>7, <1>8, <1>9, <1>10, <1>11
  DEF Handles, Handle, Writes

LEMMA PermitsInitially == HttpInit => PermitsIInv
<1>. SUFFICES ASSUME HttpInit PROVE PermitsIInv
  OBVIOUS
<1>1. Holding = {} /\ InService = {} /\ step \in [Posts -> Steps] /\ active = 0
  BY DEF HttpInit, Holding, InService, Steps
<1>. QED
  BY <1>1, FS_EmptySet, LimitsAreNat DEF PermitsIInv

LEMMA PermitsStep ==
  ASSUME PermitsIInv, [HttpNext]_hvars
  PROVE  PermitsIInv'
<1>. USE DEF PermitsIInv
<1>0. ASSUME UNCHANGED <<step, active>> PROVE PermitsIInv'
  <2>1. Holding' = Holding /\ InService' = InService
    BY <1>0 DEF Holding, InService
  <2>. QED
    BY <1>0, <2>1
<1>1. ASSUME NEW p \in Posts, step' = [step EXCEPT ![p] = step'[p]], step'[p] \in Steps
      PROVE  /\ step' \in [Posts -> Steps] /\ \A q \in Posts \ {p} : step'[q] = step[q]
             /\ MaxActive \in Nat
  BY <1>1, LimitsAreNat
<1>2. ASSUME NEW p \in Posts, step' = [step EXCEPT ![p] = step'[p]], step[p] = "new",
             step'[p] = IF HasPermit THEN "parse" ELSE "refuse", active' = active + 1
      PROVE  PermitsIInv'
  <2>1. step' \in [Posts -> Steps] /\ \A q \in Posts \ {p} : step'[q] = step[q]
    BY <1>1, <1>2 DEF Steps
  <2>2. Holding' = Holding \cup {p} /\ p \notin Holding
    BY <1>2, <2>1 DEF Holding
  <2>3. Cardinality(Holding') = Cardinality(Holding) + 1
    BY <2>2, HoldersAreCounted, FS_AddElement
  <2>4. CASE HasPermit
    <3>1. InService' = InService \cup {p} /\ p \notin InService
      BY <1>2, <2>1, <2>4 DEF InService
    <3>2. Cardinality(InService') = Cardinality(InService) + 1
      BY <3>1, HoldersAreCounted, FS_AddElement
    <3>3. Cardinality(InService) < MaxActive
      BY <2>4, HoldersAreCounted, LimitsAreNat DEF HasPermit
    <3>. QED
      BY <1>2, <2>1, <2>3, <3>2, <3>3, HoldersAreCounted, LimitsAreNat
  <2>5. CASE ~HasPermit
    <3>1. InService' = InService
      BY <1>2, <2>1, <2>5 DEF InService
    <3>. QED
      BY <1>2, <2>1, <2>3, <3>1
  <2>. QED
    BY <2>4, <2>5
<1>3. ASSUME NEW p \in Posts, step' = [step EXCEPT ![p] = step'[p]],
             step[p] \in {"refuse", "release"}, step'[p] = "done", active' = active - 1
      PROVE  PermitsIInv'
  <2>1. step' \in [Posts -> Steps] /\ \A q \in Posts \ {p} : step'[q] = step[q]
    BY <1>1, <1>3 DEF Steps
  <2>2. Holding' = Holding \ {p} /\ p \in Holding /\ InService' \subseteq InService
    BY <1>3, <2>1 DEF Holding, InService
  <2>3. Cardinality(Holding') = Cardinality(Holding) - 1
    BY <2>2, HoldersAreCounted, FS_RemoveElement
  <2>4. Cardinality(InService') <= Cardinality(InService) /\ Cardinality(InService') \in Nat
    BY <2>2, HoldersAreCounted, FS_Subset, FS_CardinalityType
  <2>. QED
    BY <1>3, <2>1, <2>3, <2>4, HoldersAreCounted, LimitsAreNat
<1>4. ASSUME NEW p \in Posts, step' = [step EXCEPT ![p] = step'[p]], step'[p] \in Steps,
             {step[p], step'[p]} \cap {"new", "refuse", "done"} = {}, active' = active
      PROVE  PermitsIInv'
  <2>1. step' \in [Posts -> Steps] /\ \A q \in Posts \ {p} : step'[q] = step[q]
    BY <1>1, <1>4
  <2>2. Holding' = Holding /\ InService' = InService
    BY <1>4, <2>1 DEF Holding, InService
  <2>. QED
    BY <1>4, <2>1, <2>2
<1>5. ASSUME NEW p \in Posts, Handles(p) PROVE PermitsIInv'
  BY <1>0, <1>2, <1>3, <1>4, <1>5, HandlerEffect
<1>6. ASSUME NEW p \in Posts, ChildPrints(p) \/ ChildEnds(p) PROVE PermitsIInv'
  BY <1>0, <1>6
  DEF ChildPrints, ChildEnds, ChildExits, ChildIsLost, ChildGarbles, ChildBecomes
<1>7. CASE UNCHANGED hvars
  BY <1>0, <1>7 DEF hvars
<1>. QED
  BY <1>5, <1>6, <1>7 DEF HttpNext, Handles, ChildEnds

\* The counter is the number of handlers between the increment and the
\* decrement, and it admits no more than the limit.
THEOREM PermitsInvariant == HttpSpec => []PermitsIInv
<1>1. PermitsIInv /\ [HttpNext]_hvars => PermitsIInv'
  BY PermitsStep
<1>. QED
  BY PermitsInitially, <1>1, PTL DEF HttpSpec

\* acquire_request_permit(), RequestGuard: however many requests overlap, never
\* more than MAX_CONCURRENT_REQUESTS are in service, and the counter is back
\* where it was when they are done.
THEOREM PermitsAreExact == HttpSpec => []PermitsExact
<1>1. PermitsIInv => PermitsExact
  <2>1. step \in [Posts -> Steps] =>
          Holding = InService \cup {p \in Posts : step[p] = "refuse"}
    BY DEF Holding, InService
  <2>. QED
    BY <2>1 DEF PermitsIInv, PermitsExact
<1>. QED
  BY <1>1, PermitsInvariant, PTL

-----------------------------------------------------------------------------
(***************************************************************************)
(* Induction over data, once: what FlattenSeq does to a sequence that      *)
(* grows by one.  Its function is compared place by place, by the least    *)
(* place at which the claim would fail.                                    *)
(***************************************************************************)
LEMMA SetInduction ==
  ASSUME NEW T, 0 \in T, \A n \in Nat : n \in T => n + 1 \in T
  PROVE  Nat \subseteq T
<1>1. DEFINE U == {n \in Nat : n \notin T}
<1>2. SUFFICES ASSUME U # {} PROVE FALSE
  OBVIOUS
<1>3. PICK x \in U : \A y \in U : <<y, x>> \notin OpToRel(<, Nat)
  BY <1>2, NatLessThanWellFounded, WFMin
<1>4. PICK y \in Nat : x = y + 1
  <2>1. x \in Nat /\ x # 0
    OBVIOUS
  <2>. QED
    BY <2>1
<1>5. <<y, x>> \in OpToRel(<, Nat)
  BY <1>4 DEF OpToRel
<1>6. y \in T
  BY <1>3, <1>5
<1>. QED
  BY <1>4, <1>6

\* The function FlattenSeq is defined with, for sequences of sequences.
Agree(f, g, n) == \A i \in 1..n : f[i] = g[i]
JoinsTo(f, ss, n) == f = [i \in 1..n |-> IF i = 1 THEN ss[i] ELSE f[i - 1] \o ss[i]]

LEMMA JoinExists ==
  ASSUME NEW S, NEW ss \in Seq(Seq(S))
  PROVE  \E f \in [1..Len(ss) -> Seq(S)] : JoinsTo(f, ss, Len(ss))
<1>1. DEFINE T == {n \in Nat : n <= Len(ss) => \E f \in [1..n -> Seq(S)] : JoinsTo(f, ss, n)}
<1>2. 0 \in T
  <2>1. PICK f : f = [i \in 1..0 |-> S]
    OBVIOUS
  <2>2. \A i : i \notin 1..0
    OBVIOUS
  <2>3. f \in [1..0 -> Seq(S)] /\ f = [i \in 1..0 |-> IF i = 1 THEN ss[i] ELSE f[i - 1] \o ss[i]]
    BY <2>1, <2>2, Zenon
  <2>. QED
    BY <2>3 DEF JoinsTo
<1>3. ASSUME NEW n \in Nat, n \in T PROVE n + 1 \in T
  <2>1. SUFFICES ASSUME n + 1 <= Len(ss)
                 PROVE \E f \in [1..(n + 1) -> Seq(S)] : JoinsTo(f, ss, n + 1)
    OBVIOUS
  <2>2. PICK f \in [1..n -> Seq(S)] : JoinsTo(f, ss, n)
    BY <1>3, <2>1
  <2>3. PICK h : h = [i \in 1..(n + 1) |-> IF i = 1 THEN ss[i] ELSE f[i - 1] \o ss[i]]
    OBVIOUS
  <2>4. \A i \in 1..n : h[i] = f[i]
    <3>1. \A i \in 1..n : i \in 1..(n + 1)
      OBVIOUS
    <3>2. \A i \in 1..n : f[i] = IF i = 1 THEN ss[i] ELSE f[i - 1] \o ss[i]
      BY <2>2, Zenon DEF JoinsTo
    <3>3. \A i \in 1..(n + 1) : h[i] = IF i = 1 THEN ss[i] ELSE f[i - 1] \o ss[i]
      BY <2>3, Zenon
    <3>. QED
      BY <3>1, <3>2, <3>3, Zenon
  <2>5. \A i \in 1..(n + 1) : i # 1 => i - 1 \in 1..n
    OBVIOUS
  <2>6. JoinsTo(h, ss, n + 1)
    BY <2>3, <2>4, <2>5 DEF JoinsTo
  <2>7. \A i \in 1..(n + 1) : h[i] \in Seq(S)
    <3>1. TAKE i \in 1..(n + 1)
    <3>2. ss[i] \in Seq(S)
      BY <2>1
    <3>3. CASE i = 1
      BY <2>3, <3>2, <3>3
    <3>4. CASE i # 1
      <4>1. f[i - 1] \in Seq(S) /\ h[i] = f[i - 1] \o ss[i]
        BY <2>2, <2>3, <2>5, <3>4
      <4>. QED
        BY <3>2, <4>1
    <3>. QED
      BY <3>3, <3>4
  <2>. QED
    BY <2>3, <2>6, <2>7
<1>. HIDE DEF T
<1>4. Nat \subseteq T
  BY <1>2, <1>3, SetInduction
<1>. QED
  BY <1>4 DEF T

LEMMA JoinsAgree ==
  ASSUME NEW f, NEW h, NEW ss, NEW tt, NEW n \in Nat, NEW m \in Nat, n <= m,
         JoinsTo(f, ss, n), JoinsTo(h, tt, m), Agree(ss, tt, n)
  PROVE  Agree(f, h, n)
<1>. USE DEF Agree
<1>1. DEFINE T == {i \in Nat : i \in 1..n => f[i] = h[i]}
<1>2. 0 \in T
  OBVIOUS
<1>3. ASSUME NEW i \in Nat, i \in T PROVE i + 1 \in T
  <2>1. SUFFICES ASSUME i + 1 \in 1..n PROVE f[i + 1] = h[i + 1]
    OBVIOUS
  <2>2. i + 1 \in 1..m /\ (i + 1 # 1 => i \in 1..n) /\ (i + 1) - 1 = i
    BY <2>1
  <2>3. f[i + 1] = IF i + 1 = 1 THEN ss[i + 1] ELSE f[(i + 1) - 1] \o ss[i + 1]
    BY <2>1, Zenon DEF JoinsTo
  <2>4. h[i + 1] = IF i + 1 = 1 THEN tt[i + 1] ELSE h[(i + 1) - 1] \o tt[i + 1]
    BY <2>2, Zenon DEF JoinsTo
  <2>5. ss[i + 1] = tt[i + 1] /\ (i + 1 # 1 => f[i] = h[i])
    BY <1>3, <2>1, <2>2
  <2>. QED
    BY <2>2, <2>3, <2>4, <2>5, Zenon
<1>. HIDE DEF T
<1>4. Nat \subseteq T
  BY <1>2, <1>3, SetInduction
<1>. QED
  BY <1>4 DEF T

LEMMA FlattenIsJoin ==
  ASSUME NEW S, NEW ss \in Seq(Seq(S)), Len(ss) # 0
  PROVE  \E f \in [1..Len(ss) -> Seq(S)] :
           JoinsTo(f, ss, Len(ss)) /\ FlattenSeq(ss) = f[Len(ss)]
<1>1. PICK g \in [1..Len(ss) -> Seq(S)] : JoinsTo(g, ss, Len(ss))
  BY JoinExists
<1>2. DEFINE f == CHOOSE x : JoinsTo(x, ss, Len(ss))
<1>3. JoinsTo(f, ss, Len(ss))
  BY <1>1, Zenon
<1>4. FlattenSeq(ss) = f[Len(ss)]
  BY Zenon DEF FlattenSeq, JoinsTo
<1>5. \A i \in 1..Len(ss) : f[i] = g[i]
  <2>1. Agree(f, g, Len(ss))
    <3>1. Agree(ss, ss, Len(ss)) /\ Len(ss) \in Nat /\ Len(ss) <= Len(ss)
      BY DEF Agree
    <3>. HIDE DEF f
    <3>. QED
      BY <1>1, <1>3, <3>1, JoinsAgree, Zenon
  <2>. QED
    BY <2>1 DEF Agree
<1>6. Len(ss) \in 1..Len(ss)
  OBVIOUS
<1>7. FlattenSeq(ss) = g[Len(ss)]
  BY <1>4, <1>5, <1>6
<1>. QED
  BY <1>1, <1>7

LEMMA OnlyOneEmpty ==
  ASSUME NEW S, NEW s \in Seq(S), Len(s) = 0
  PROVE  s = <<>>
  OBVIOUS

LEMMA FlattenAppend ==
  ASSUME NEW S, NEW ss \in Seq(Seq(S)), NEW s \in Seq(S)
  PROVE  FlattenSeq(Append(ss, s)) = FlattenSeq(ss) \o s
<1>1. PICK n \in Nat : n = Len(ss)
  OBVIOUS
<1>0. Append(ss, s) \in Seq(Seq(S))
  OBVIOUS
<1>2. PICK tt \in Seq(Seq(S)) : tt = Append(ss, s)
  BY <1>0
<1>3. Len(tt) = n + 1 /\ tt[n + 1] = s /\ \A i \in 1..n : tt[i] = ss[i]
  BY <1>1, <1>2
<1>4. PICK h \in [1..(n + 1) -> Seq(S)] : JoinsTo(h, tt, n + 1) /\ FlattenSeq(tt) = h[n + 1]
  <2>1. Len(tt) # 0
    BY <1>3
  <2>2. \E h \in [1..Len(tt) -> Seq(S)] : JoinsTo(h, tt, Len(tt)) /\ FlattenSeq(tt) = h[Len(tt)]
    BY <1>2, <2>1, FlattenIsJoin, Zenon
  <2>. QED
    BY <1>3, <2>2
<1>5. h[n + 1] = IF n + 1 = 1 THEN tt[n + 1] ELSE h[(n + 1) - 1] \o tt[n + 1]
  <2>1. n + 1 \in 1..(n + 1)
    OBVIOUS
  <2>. QED
    BY <1>4, <2>1, Zenon DEF JoinsTo
<1>6. CASE n = 0
  <2>1. FlattenSeq(ss) = <<>>
    <3>1. ss = <<>>
      BY <1>1, <1>6, OnlyOneEmpty, Zenon
    <3>2. Len(ss) = 0
      BY <1>1, <1>6
    <3>. QED
      BY <3>1, <3>2 DEF FlattenSeq
  <2>2. <<>> \o s = s
    OBVIOUS
  <2>. QED
    BY <1>2, <1>3, <1>4, <1>5, <1>6, <2>1, <2>2
<1>7. CASE n # 0
  <2>1. PICK f \in [1..n -> Seq(S)] : JoinsTo(f, ss, n) /\ FlattenSeq(ss) = f[n]
    BY <1>1, <1>7, FlattenIsJoin
  <2>2. n <= n + 1 /\ n + 1 \in Nat /\ \A i \in 1..n : ss[i] = tt[i]
    BY <1>3
  <2>3. \A i \in 1..n : f[i] = h[i]
    <3>1. PICK m \in Nat : m = n + 1
      OBVIOUS
    <3>2. n \in Nat /\ m \in Nat /\ n <= m /\ JoinsTo(h, tt, m)
      BY <1>1, <1>4, <3>1
    <3>. HIDE <3>1
    <3>3. Agree(ss, tt, n)
      BY <2>2 DEF Agree
    <3>4. Agree(f, h, n)
      BY <2>1, <3>2, <3>3, JoinsAgree, Zenon
    <3>. QED
      BY <3>4 DEF Agree
  <2>4. n \in 1..n /\ n + 1 # 1 /\ (n + 1) - 1 = n
    BY <1>7
  <2>5. f[n] = h[n]
    BY <2>3, <2>4
  <2>. QED
    BY <1>2, <1>3, <1>4, <1>5, <2>1, <2>4, <2>5, Zenon
<1>. QED
  BY <1>6, <1>7

-----------------------------------------------------------------------------
\* As many different answers as there are requests, and each of them to one of
\* the requests: then all are answered, whatever the requests are.
AllDiffer(s, N, R) ==
  (\A i \in N : s[i] \in R) /\ (\A i, j \in N : s[i] = s[j] => i = j)
Covers(b, E, R) == (\A e \in E : b[e] \in R) /\ (\A x \in R : \E e \in E : b[e] = x)

LEMMA Counting ==
  ASSUME NEW N, NEW E, NEW R, NEW s, NEW b, IsFiniteSet(E),
         AllDiffer(s, N, R), Covers(b, E, R), Cardinality(N) >= Cardinality(E)
  PROVE  Covers(s, N, R)
<1>. USE DEF AllDiffer, Covers
<1>1. DEFINE f == [e \in E |-> b[e]]
             g == [i \in N |-> s[i]]
<1>2. f \in Surjection(E, R)
  BY Zenon DEF Surjection
<1>3. IsFiniteSet(R) /\ Cardinality(R) <= Cardinality(E)
  BY <1>2, FS_Surjection
<1>4. g \in Injection(N, R)
  BY Zenon DEF Injection, IsInjective
<1>5. /\ IsFiniteSet(N) /\ Cardinality(N) <= Cardinality(R)
      /\ Cardinality(N) = Cardinality(R) => g \in Surjection(N, R)
  <2>. HIDE DEF g
  <2>. QED
    BY <1>3, <1>4, FS_Injection, Zenon
<1>6. Cardinality(N) = Cardinality(R)
  BY <1>3, <1>5, FS_CardinalityType
<1>7. g \in Surjection(N, R)
  BY <1>5, <1>6
<1>. QED
  BY <1>7, Zenon DEF Surjection

\* Exchanges share nothing: a step of one leaves the others alone.
LEMMA OthersStay ==
  ASSUME ExchangesTypeOK, NEW p \in Posts, Handles(p) \/ ChildPrints(p) \/ ChildEnds(p),
         NEW q \in Posts, q # p
  PROVE  /\ UNCHANGED <<step[q], stdin[q], child[q], answered[q], lines[q], read[q]>>
         /\ UNCHANGED <<buffered[q], collected[q], reply[q], expired[q]>>
<1>. USE DEF ExchangesTypeOK, childVars, outVars, printed, Goto, Reply
<1>1. CASE TakePermit(p) \/ RefusePermit(p) \/ Reject(p) \/ AcceptNotes(p) \/ SpawnChild(p)
  BY <1>1, Zenon DEF TakePermit, RefusePermit, Reject, AcceptNotes, SpawnChild
<1>2. CASE Writes(p)
  <2>1. ASSUME NEW m, NEW from, NEW to, Write(p, m, from, to)
        PROVE  /\ UNCHANGED <<step[q], stdin[q], child[q], answered[q], lines[q], read[q]>>
               /\ UNCHANGED <<buffered[q], collected[q], reply[q], expired[q]>>
    BY <2>1, ZenonT(30) DEF Write
  <2>. QED
    BY <1>2, <2>1, Zenon DEF Writes, SendInit, SendInitialized, ForwardNext
<1>3. CASE BufferLine(p) \/ CollectLine(p)
  BY <1>3, Zenon DEF BufferLine, CollectLine, ReadLine
<1>4. CASE InitFails(p) \/ AcceptResponses(p)
  BY <1>4, Zenon DEF InitFails, InitTimesOut, AcceptResponses
<1>5. CASE CollectEnds(p)
  BY <1>5, ZenonT(30) DEF CollectEnds, Respond
<1>6. CASE Kill(p)
  BY <1>6, Zenon DEF Kill
<1>7. CASE Release(p)
  BY <1>7, Zenon DEF Release
<1>8. CASE ChildPrints(p)
  BY <1>8, Zenon DEF ChildPrints
<1>9. CASE ChildEnds(p)
  BY <1>9, Zenon DEF ChildEnds, ChildExits, ChildIsLost, ChildGarbles, ChildBecomes
<1>. QED
  BY <1>1, <1>2, <1>3, <1>4, <1>5, <1>6, <1>7, <1>8, <1>9 DEF Handles, Handle

-----------------------------------------------------------------------------
Longer(t, s, m, n) == Len(t) = n + 1 /\ t[n + 1] = m /\ \A i \in 1..n : t[i] = s[i]

LEMMA AppendParts ==
  ASSUME NEW S, NEW s \in Seq(S), NEW m \in S, NEW n \in Nat, Len(s) = n
  PROVE  Longer(Append(s, m), s, m, n)
  BY DEF Longer

LEMMA ToSetOfAppend ==
  ASSUME NEW S, NEW s \in Seq(S), NEW m \in S
  PROVE  Append(s, m) \in Seq(S) /\ ToSet(Append(s, m)) = ToSet(s) \cup {m}
<1>1. PICK n \in Nat : n = Len(s)
  OBVIOUS
<1>0. Append(s, m) \in Seq(S)
  OBVIOUS
<1>2. PICK t \in Seq(S) : t = Append(s, m)
  BY <1>0
<1>3. Len(t) = n + 1 /\ t[n + 1] = m /\ \A i \in 1..n : t[i] = s[i]
  BY <1>1, <1>2
<1>4. DOMAIN t = 1..(n + 1) /\ DOMAIN s = 1..n /\ n + 1 \in 1..(n + 1)
  BY <1>1, <1>3
<1>5. \A i \in 1..(n + 1) : i \in 1..n \/ i = n + 1
  OBVIOUS
<1>6. \A i \in 1..n : i \in 1..(n + 1)
  OBVIOUS
<1>. QED
  BY <1>2, <1>3, <1>4, <1>5, <1>6, Zenon DEF ToSet

LEMMA SmallestOf ==
  ASSUME NEW I, I \subseteq Nat, I # {}
  PROVE  Min(I) \in I
<1>1. PICK x \in I : \A y \in I : <<y, x>> \notin OpToRel(<, Nat)
  BY NatLessThanWellFounded, WFMin
<1>2. ASSUME NEW y \in I PROVE x <= y
  <2>1. x \in Nat /\ y \in Nat
    OBVIOUS
  <2>2. ~(y < x)
    BY <1>1, <2>1 DEF OpToRel
  <2>. QED
    BY <2>1, <2>2
<1>. QED
  BY <1>2 DEF Min

\* Where the answer to the synthetic initialize is on a line, and what is kept.
LEMMA AnswerPlace ==
  ASSUME NEW line \in Seq(Messages)
  PROVE  /\ UpToAnswer(line) = 0 <=> "auto" \notin ToSet(line)
         /\ UpToAnswer(line) = 0 => Kept(line) = line
         /\ Kept(line) \in Seq(Messages)
<1>1. DEFINE I == {i \in 1..Len(line) : line[i] = "auto"}
<1>2. UpToAnswer(line) = IF I # {} THEN Min(I) ELSE 0
  BY DEF UpToAnswer, SelectInSeq
<1>3. I # {} <=> "auto" \in ToSet(line)
  BY DEF ToSet
<1>4. I \subseteq Nat
  OBVIOUS
<1>5. I # {} => Min(I) \in I
  BY <1>4, SmallestOf
<1>6. I # {} => UpToAnswer(line) \in 1..Len(line)
  BY <1>2, <1>5
<1>7. UpToAnswer(line) = 0 => Kept(line) = line
  BY DEF Kept
<1>8. ASSUME I # {} PROVE Kept(line) \in Seq(Messages)
  <2>1. PICK n \in Nat : n = UpToAnswer(line) /\ n \in 1..Len(line)
    BY <1>6, <1>8
  <2>2. Kept(line) = SubSeq(line, 1, n - 1)
    BY <2>1 DEF Kept
  <2>. QED
    BY <2>1, <2>2
<1>. QED
  BY <1>2, <1>3, <1>6, <1>7, <1>8

LEMMA KeptAppend ==
  ASSUME NEW ls \in Seq(Seq(Messages)), NEW line \in Seq(Messages)
  PROVE  /\ KeptOf(ls) \in Seq(Seq(Messages))
         /\ FlattenSeq(KeptOf(Append(ls, line))) = FlattenSeq(KeptOf(ls)) \o Kept(line)
<1>1. PICK n \in Nat : n = Len(ls)
  OBVIOUS
<1>2. \A i \in 1..n : Kept(ls[i]) \in Seq(Messages)
  BY <1>1, AnswerPlace
<1>3. KeptOf(ls) = [i \in 1..n |-> Kept(ls[i])]
  BY <1>1 DEF KeptOf
<1>4. KeptOf(ls) \in Seq(Seq(Messages)) /\ Len(KeptOf(ls)) = n
  BY <1>2, <1>3
<1>5. PICK ks \in Seq(Seq(Messages)), k \in Seq(Messages) : ks = KeptOf(ls) /\ k = Kept(line)
  BY <1>4, AnswerPlace
<1>14. Append(ls, line) \in Seq(Seq(Messages))
  OBVIOUS
<1>6. PICK tt \in Seq(Seq(Messages)) : tt = Append(ls, line)
  BY <1>14
<1>7. Len(tt) = n + 1 /\ tt[n + 1] = line /\ \A i \in 1..n : tt[i] = ls[i]
  BY <1>1, <1>6
<1>8. KeptOf(tt) = [i \in 1..(n + 1) |-> Kept(tt[i])]
  BY <1>7 DEF KeptOf
<1>15. Append(ks, k) \in Seq(Seq(Messages))
  BY <1>5
<1>9. PICK kk \in Seq(Seq(Messages)) : kk = Append(ks, k)
  BY <1>15
<1>16. Len(ks) = n
  BY <1>4, <1>5
<1>10. Len(kk) = n + 1 /\ kk[n + 1] = k /\ \A i \in 1..n : kk[i] = ks[i]
  <2>1. n \in Nat /\ ks \in Seq(Seq(Messages)) /\ k \in Seq(Messages)
    BY <1>1, <1>5
  <2>2. Longer(Append(ks, k), ks, k, n)
    BY <2>1, <1>16, AppendParts, Zenon
  <2>. QED
    BY <1>9, <2>2, Zenon DEF Longer
<1>11. \A i \in 1..n : ks[i] = Kept(ls[i])
  BY <1>3, <1>5
<1>12. \A i \in 1..(n + 1) : kk[i] = Kept(tt[i])
  <2>1. \A i \in 1..(n + 1) : i \in 1..n \/ i = n + 1
    OBVIOUS
  <2>. QED
    BY <1>5, <1>7, <1>10, <1>11, <2>1
<1>13. KeptOf(tt) = kk
  BY <1>8, <1>10, <1>12
<1>. QED
  BY <1>4, <1>5, <1>6, <1>9, <1>13, FlattenAppend

-----------------------------------------------------------------------------
InOrder(p) == buffered[p] \o collected[p] = FlattenSeq(KeptOf(read[p]))

Fits(p) == HandshakeFits(p) /\ AnswersFit(p) /\ NothingCollected(p) /\ AnswersAll(p) /\ InOrder(p)

OutputTypeOK(p) ==
  /\ stdin[p] \in Seq(Messages) /\ buffered[p] \in Seq(Messages)
  /\ collected[p] \in Seq(Messages)
  /\ lines[p] \in Seq(Seq(Messages)) /\ read[p] \in Seq(Seq(Messages))

LEMMA OutputTypes ==
  ASSUME ExchangesTypeOK, NEW p \in Posts
  PROVE  OutputTypeOK(p)
  BY Zenon DEF ExchangesTypeOK, OutputTypeOK

LEMMA UpdateTypes ==
  ASSUME NEW P, NEW S, NEW f \in [P -> S], NEW p \in P, NEW v \in S
  PROVE  [f EXCEPT ![p] = v] \in [P -> S]
  OBVIOUS

LEMMA BodyMessages ==
  ASSUME NEW p \in Posts
  PROVE  /\ BodyOf[p] \in Seq(Messages)
         /\ ToSet(BodyOf[p]) \subseteq Asks \cup {"initialize", "note", "response"}
<1>1. BodyOf[p] \in Seq(Asks \cup {"initialize", "note", "response"})
  BY BodiesAreMessages
<1>2. \A i \in DOMAIN BodyOf[p] : BodyOf[p][i] \in Asks \cup {"initialize", "note", "response"}
  BY <1>1
<1>. QED
  BY <1>1, <1>2 DEF ToSet, Messages

\* The invariant of an exchange reads nothing but its own state.
LEMMA FitsStays ==
  ASSUME NEW q \in Posts, Fits(q),
         UNCHANGED <<step[q], stdin[q], child[q], answered[q], lines[q], read[q]>>,
         UNCHANGED <<buffered[q], collected[q], reply[q], expired[q]>>
  PROVE  Fits(q)'
<1>. USE DEF Fits
<1>1. HandshakeFits(q)'
  BY DEF HandshakeFits
<1>2. AnswersFit(q)'
  BY DEF AnswersFit
<1>3. NothingCollected(q)' /\ AnswersAll(q)' /\ InOrder(q)'
  BY DEF NothingCollected, AnswersAll, InOrder
<1>. QED
  BY <1>1, <1>2, <1>3

LEMMA PlacesAreFinite ==
  ASSUME NEW S, NEW s \in Seq(S)
  PROVE  IsFiniteSet(DOMAIN s)
<1>1. PICK n \in Nat : DOMAIN s = 1..n
  OBVIOUS
<1>. QED
  BY <1>1, FS_Interval

LEMMA TakenIsLess ==
  ASSUME NEW S, NEW ls \in Seq(Seq(S)), ls # <<>>
  PROVE  /\ Tail(ls) \in Seq(Seq(S)) /\ Head(ls) \in Seq(S) /\ Head(ls) = ls[1] /\ 1 \in DOMAIN ls
         /\ \A i \in DOMAIN Tail(ls) : i + 1 \in DOMAIN ls /\ Tail(ls)[i] = ls[i + 1] /\ i + 1 # 1
  OBVIOUS

LEMMA JoinedAgain ==
  ASSUME NEW S, NEW r \in Seq(S), NEW s \in Seq(S), NEW t \in Seq(S)
  PROVE  r \o (s \o t) = (r \o s) \o t
  OBVIOUS

LEMMA AnswersOfJoined ==
  ASSUME NEW S, NEW s \in Seq(S), NEW t \in Seq(S)
  PROVE  /\ AnswersIn(s \o t) = AnswersIn(s) \cup AnswersIn(t)
         /\ AnswersOnce(s) /\ AnswersOnce(t) /\ AnswersIn(s) \cap AnswersIn(t) = {}
              => AnswersOnce(s \o t)
<1>1. PICK n \in Nat, m \in Nat : n = Len(s) /\ m = Len(t)
  OBVIOUS
<1>2. s \o t \in Seq(S)
  OBVIOUS
<1>3. PICK u \in Seq(S) : u = s \o t
  BY <1>2
<1>4. DOMAIN s = 1..n /\ DOMAIN t = 1..m /\ DOMAIN u = 1..(n + m)
  BY <1>1, <1>3
<1>5. (\A i \in 1..n : u[i] = s[i]) /\ (\A i \in (n + 1)..(n + m) : u[i] = t[i - n])
  BY <1>1, <1>3
<1>6. \A i \in 1..m : i + n \in (n + 1)..(n + m) /\ (i + n) - n = i
  OBVIOUS
<1>7. \A i \in 1..(n + m) : i \in 1..n \/ i \in (n + 1)..(n + m)
  OBVIOUS
<1>8. \A i \in (n + 1)..(n + m) : i - n \in 1..m
  OBVIOUS
<1>9. ToSet(u) = ToSet(s) \cup ToSet(t)
  <2>1. \A i \in 1..n : i \in 1..(n + m)
    OBVIOUS
  <2>2. \A i \in (n + 1)..(n + m) : i \in 1..(n + m)
    OBVIOUS
  <2>3. \A i \in 1..n : u[i] \in ToSet(s) /\ s[i] \in ToSet(u)
    BY <1>4, <1>5, <2>1, Zenon DEF ToSet
  <2>4. \A i \in (n + 1)..(n + m) : u[i] \in ToSet(t)
    BY <1>4, <1>5, <1>8, Zenon DEF ToSet
  <2>5. \A i \in 1..m : t[i] \in ToSet(u)
    BY <1>4, <1>5, <1>6, <2>2, Zenon DEF ToSet
  <2>. QED
    BY <1>4, <1>7, <2>3, <2>4, <2>5, Zenon DEF ToSet
<1>10. AnswersIn(u) = AnswersIn(s) \cup AnswersIn(t)
  BY <1>9, Zenon DEF AnswersIn
<1>11. ASSUME AnswersOnce(s), AnswersOnce(t), AnswersIn(s) \cap AnswersIn(t) = {}
       PROVE  AnswersOnce(u)
  <2>1. SUFFICES ASSUME NEW j \in 1..(n + m), NEW k \in 1..(n + m), u[j] = u[k], IsAnswer(u[j])
                 PROVE  j = k
    BY <1>4, Zenon DEF AnswersOnce
  <2>2. \A i \in 1..n : IsAnswer(s[i]) => s[i] \in AnswersIn(s)
    BY <1>4, Zenon DEF AnswersIn, ToSet
  <2>3. \A i \in 1..m : IsAnswer(t[i]) => t[i] \in AnswersIn(t)
    BY <1>4, Zenon DEF AnswersIn, ToSet
  <2>4. CASE j \in 1..n /\ k \in 1..n
    BY <1>4, <1>5, <1>11, <2>1, <2>4, Zenon DEF AnswersOnce
  <2>5. CASE j \in (n + 1)..(n + m) /\ k \in (n + 1)..(n + m)
    <3>1. t[j - n] = t[k - n] /\ IsAnswer(t[j - n]) /\ j - n \in 1..m /\ k - n \in 1..m
      BY <1>5, <1>8, <2>1, <2>5, Zenon
    <3>2. j - n = k - n
      BY <1>4, <1>11, <3>1, Zenon DEF AnswersOnce
    <3>. QED
      BY <3>2
  <2>6. CASE j \in 1..n /\ k \in (n + 1)..(n + m)
    BY <1>5, <1>8, <1>11, <2>1, <2>2, <2>3, <2>6, Zenon
  <2>7. CASE k \in 1..n /\ j \in (n + 1)..(n + m)
    BY <1>5, <1>8, <1>11, <2>1, <2>2, <2>3, <2>7, Zenon
  <2>. QED
    BY <1>7, <2>4, <2>5, <2>6, <2>7
<1>. QED
  BY <1>3, <1>10, <1>11, Zenon
-----------------------------------------------------------------------------
\* What a write does to the exchange: the message is in the child's input, or
\* the exchange has failed.
LEMMA WriteFits ==
  ASSUME ExchangesTypeOK, NEW p \in Posts, Fits(p), NEW m \in Messages, NEW from, NEW to,
         Write(p, m, from, to),
         <<from, to>> \in {<<"init", "wait">>, <<"initialized", "forward">>,
                           <<"forward", "forward">>, <<"forward", "collect">>},
         m \in ToSet(BodyOf[p]) \cup {"auto", "initialized"},
         m = "auto" => from = "init"
  PROVE  Fits(p)'
<1>1. OutputTypeOK(p) /\ step[p] = from
  BY OutputTypes DEF Write, Goto, Reply
<1>2. /\ UNCHANGED <<answered[p], lines[p], read[p], buffered[p], collected[p], expired[p]>>
  BY Zenon DEF Write, printed, outVars
<1>3. HandshakeFits(p) /\ AnswersFit(p) /\ NothingCollected(p) /\ AnswersAll(p) /\ InOrder(p)
  BY DEF Fits
<1>4. CASE Goto(p, from, to) /\ stdin' = [stdin EXCEPT ![p] = Append(@, m)]
  <2>1. step'[p] = to /\ stdin'[p] = Append(stdin[p], m)
    BY <1>4 DEF Goto, ExchangesTypeOK
  <2>2. ToSet(stdin'[p]) = ToSet(stdin[p]) \cup {m}
    <3>1. stdin[p] \in Seq(Messages)
      BY <1>1 DEF OutputTypeOK
    <3>2. ToSet(Append(stdin[p], m)) = ToSet(stdin[p]) \cup {m}
      BY <3>1, ToSetOfAppend
    <3>. QED
      BY <2>1, <3>2, Zenon
  <2>3. HandshakeFits(p)'
    <3>1. ToSet(stdin'[p]) \subseteq ToSet(BodyOf[p]) \cup {"auto", "initialized"}
      BY <1>3, <2>2, Zenon DEF HandshakeFits
    <3>2. Initializes(p) => "auto" \notin ToSet(stdin'[p])
      BY <1>1, <1>3, <2>2, Zenon DEF HandshakeFits
    <3>3. step'[p] \in {"init", "wait", "initialized"} => ~Initializes(p)
      BY <1>1, <1>3, <2>1 DEF HandshakeFits
    <3>4. step'[p] \in {"initialized", "forward", "collect"} =>
            /\ "auto" \in ToSet(stdin'[p]) => "auto" \in answered'[p]
            /\ \A i \in DOMAIN lines'[p] : "auto" \notin ToSet(lines'[p][i])
      <4>1. SUFFICES ASSUME step'[p] \in {"initialized", "forward", "collect"}
                     PROVE  /\ from \in {"initialized", "forward"} /\ m # "auto"
        <5>1. \A x : x \in {"initialized", "forward"} => x \in {"initialized", "forward", "collect"}
          OBVIOUS
        <5>. QED
          BY <1>1, <1>2, <1>3, <2>2, <5>1, Zenon DEF HandshakeFits
      <4>. QED
        BY <2>1, <4>1
    <3>. QED
      BY <3>1, <3>2, <3>3, <3>4 DEF HandshakeFits, Initializes
  <2>4. AnswersFit(p)'
    BY <1>2, <1>3, <2>2, Zenon DEF AnswersFit
  <2>5. NothingCollected(p)' /\ AnswersAll(p)' /\ InOrder(p)'
    <3>1. collected[p] = <<>> /\ step'[p] # "kill"
      BY <1>1, <1>3, <2>1 DEF NothingCollected
    <3>. QED
      BY <1>2, <1>3, <3>1, Zenon DEF NothingCollected, AnswersAll, InOrder
  <2>. QED
    BY <2>3, <2>4, <2>5 DEF Fits
<1>5. CASE Reply(p, from, "kill", "child_dead") /\ UNCHANGED stdin
  <2>1. /\ step'[p] = "kill" /\ stdin' = stdin /\ reply'[p] = "child_dead"
    BY <1>5 DEF Goto, Reply, ExchangesTypeOK
  <2>2. HandshakeFits(p)' /\ AnswersFit(p)'
    <3>1. HandshakeFits(p)'
      BY <1>2, <1>3, <2>1 DEF HandshakeFits, Initializes
    <3>2. AnswersFit(p)'
      BY <1>2, <1>3, <2>1, Zenon DEF AnswersFit
    <3>. QED
      BY <3>1, <3>2
  <2>3. NothingCollected(p)' /\ AnswersAll(p)' /\ InOrder(p)'
    <3>1. collected[p] = <<>>
      BY <1>1, <1>3 DEF NothingCollected
    <3>2. NothingCollected(p)'
      BY <1>2, <3>1, Zenon DEF NothingCollected
    <3>3. AnswersAll(p)'
      BY <2>1 DEF AnswersAll
    <3>4. InOrder(p)'
      BY <1>2, <1>3, Zenon DEF InOrder
    <3>. QED
      BY <3>2, <3>3, <3>4
  <2>. QED
    BY <2>2, <2>3 DEF Fits
<1>. QED
  BY <1>4, <1>5 DEF Write

LEMMA ForwardedIsNext ==
  ASSUME ExchangesTypeOK, NEW p \in Posts, ForwardNext(p)
  PROVE  /\ BodyOf[p][Forwarded(p) + 1] \in ToSet(BodyOf[p])
         /\ BodyOf[p][Forwarded(p) + 1] \in Messages \ {"auto"}
<1>1. Forwarded(p) \in Nat
  <2>1. OutputTypeOK(p)
    BY OutputTypes
  <2>2. IsFiniteSet(DOMAIN stdin[p])
    BY <2>1, PlacesAreFinite, Zenon DEF OutputTypeOK
  <2>. QED
    BY <2>2, FS_Subset, FS_CardinalityType DEF Forwarded
<1>2. PICK k \in Nat : k = Forwarded(p)
  BY <1>1
<1>3. k + 1 \in DOMAIN BodyOf[p]
  BY <1>2, BodyMessages DEF ForwardNext
<1>4. BodyOf[p][k + 1] \in ToSet(BodyOf[p]) /\ BodyOf[p][k + 1] \in Messages
  BY <1>3, BodyMessages DEF ToSet
<1>5. BodyOf[p][k + 1] # "auto"
  BY <1>4, BodyMessages, AsksAreNamed
<1>. QED
  BY <1>2, <1>4, <1>5

LEMMA WritesFit ==
  ASSUME ExchangesTypeOK, NEW p \in Posts, Fits(p),
         SendInit(p) \/ SendInitialized(p) \/ ForwardNext(p)
  PROVE  Fits(p)'
<1>1. CASE SendInit(p)
  BY <1>1, WriteFits DEF SendInit, Messages
<1>2. CASE SendInitialized(p)
  BY <1>2, WriteFits DEF SendInitialized, Messages
<1>3. CASE ForwardNext(p)
  <2>1. PICK m \in Messages, to \in {"collect", "forward"} :
          m \in ToSet(BodyOf[p]) /\ m # "auto" /\ Write(p, m, "forward", to)
    BY <1>3, ForwardedIsNext DEF ForwardNext
  <2>. QED
    BY <2>1, WriteFits
<1>. QED
  BY <1>1, <1>2, <1>3

\* A step that leaves the messages of the exchange alone.
LEMMA QuietFits ==
  ASSUME ExchangesTypeOK, NEW p \in Posts, Fits(p),
         UNCHANGED <<stdin[p], answered[p], lines[p], read[p], buffered[p], collected[p]>>,
         step'[p] \in {"init", "wait", "initialized"} => ~Initializes(p),
         step'[p] \in {"initialized", "collect"} => step'[p] = step[p],
         step'[p] = "forward" => Initializes(p) \/ step[p] = "forward",
         NothingCollected(p)', AnswersAll(p)'
  PROVE  Fits(p)'
<1>1. HandshakeFits(p) /\ AnswersFit(p) /\ InOrder(p)
  BY DEF Fits
<1>2. AnswersFit(p)' /\ InOrder(p)'
  BY <1>1, Zenon DEF AnswersFit, InOrder
<1>3. HandshakeFits(p)'
  <2>1. /\ ToSet(stdin'[p]) \subseteq ToSet(BodyOf[p]) \cup {"auto", "initialized"}
        /\ Initializes(p) => "auto" \notin ToSet(stdin'[p])
    BY <1>1, Zenon DEF HandshakeFits
  <2>2. CASE Initializes(p) /\ step'[p] = "forward"
    <3>1. "auto" \notin ToSet(stdin[p])
      BY <1>1, <2>2 DEF HandshakeFits
    <3>2. "auto" \notin answered[p]
      BY <1>1, <3>1, Zenon DEF AnswersFit
    <3>3. \A i \in DOMAIN lines[p] : "auto" \notin ToSet(lines[p][i])
      <4>1. "auto" \notin {"note"}
        OBVIOUS
      <4>2. \A i \in DOMAIN lines[p] : AnswersIn(lines[p][i]) \subseteq answered[p]
        BY <1>1, Zenon DEF AnswersFit
      <4>. QED
        BY <3>2, <4>1, <4>2, Zenon DEF AnswersIn, IsAnswer
    <3>. QED
      BY <2>1, <2>2, <3>1, <3>3, Zenon DEF HandshakeFits, Initializes
  <2>3. CASE step'[p] = step[p] \/ step'[p] \notin {"initialized", "forward", "collect"}
    BY <1>1, <2>1, <2>3 DEF HandshakeFits, Initializes
  <2>. QED
    BY <2>2, <2>3
<1>. QED
  BY <1>2, <1>3 DEF Fits

\* collect_responses() counts; enough answers are all the answers.
LEMMA AllCollected ==
  ASSUME ExchangesTypeOK, NEW p \in Posts, Fits(p), Responses(p) >= Expected(p)
  PROVE  Requests(p) \subseteq ToSet(collected[p])
<1>1. OutputTypeOK(p) /\ AnswersFit(p) /\ HandshakeFits(p)
  BY OutputTypes DEF Fits
<1>2. DEFINE N == {i \in DOMAIN collected[p] : Counts(collected[p][i])}
             E == {i \in DOMAIN BodyOf[p] : IsRequest(BodyOf[p][i])}
<1>3. IsFiniteSet(E)
  <2>1. PICK n \in Nat : DOMAIN BodyOf[p] = 1..n
    BY BodyMessages
  <2>. QED
    BY <2>1, FS_Interval, FS_Subset
<1>4. \A i \in N : collected[p][i] \in Requests(p)
  <2>1. TAKE i \in N
  <2>2. collected[p][i] \in AnswersIn(collected[p])
    BY DEF AnswersIn, ToSet, Counts
  <2>3. collected[p][i] \in answered[p] \ {"auto"}
    BY <1>1, <2>2, Zenon DEF AnswersFit
  <2>4. IsRequest(collected[p][i]) /\ collected[p][i] \in ToSet(BodyOf[p]) \cup {"auto", "initialized"}
    BY <1>1, <2>3, Zenon DEF AnswersFit, HandshakeFits
  <2>5. collected[p][i] # "initialized"
    BY <2>4, AsksAreNamed DEF IsRequest
  <2>. QED
    BY <2>3, <2>4, <2>5, Zenon DEF Requests
<1>5. \A i, j \in N : collected[p][i] = collected[p][j] => i = j
  BY <1>1, Zenon DEF AnswersFit, AnswersOnce, Counts
<1>6. /\ \A e \in E : BodyOf[p][e] \in Requests(p)
      /\ \A x \in Requests(p) : \E e \in E : BodyOf[p][e] = x
  BY Zenon DEF Requests, ToSet
<1>7. Cardinality(N) >= Cardinality(E)
  BY DEF Responses, Expected
<1>8. Covers(collected[p], N, Requests(p))
  <2>. HIDE DEF N, E
  <2>1. AllDiffer(collected[p], N, Requests(p)) /\ Covers(BodyOf[p], E, Requests(p))
    BY <1>4, <1>5, <1>6, Zenon DEF AllDiffer, Covers
  <2>. QED
    BY <1>3, <1>7, <2>1, Counting, Zenon
<1>. QED
  BY <1>8, Zenon DEF Covers, ToSet

LEMMA QuietSteps ==
  ASSUME ExchangesTypeOK, NEW p \in Posts, Fits(p),
         \/ TakePermit(p) \/ RefusePermit(p) \/ Reject(p) \/ AcceptNotes(p) \/ SpawnChild(p)
         \/ InitFails(p) \/ AcceptResponses(p) \/ CollectEnds(p) \/ Kill(p) \/ ChildEnds(p)
  PROVE  Fits(p)'
<1>. USE DEF childVars, outVars, Goto, Reply
<1>1. HandshakeFits(p) /\ NothingCollected(p) /\ AnswersAll(p)
  BY DEF Fits
<1>. USE DEF NothingCollected, AnswersAll
<1>2. CASE TakePermit(p)
  <2>1. UNCHANGED <<stdin[p], answered[p], lines[p], read[p], buffered[p], collected[p]>>
    BY <1>2, Zenon DEF TakePermit
  <2>2. step[p] = "new" /\ step'[p] \in {"parse", "refuse"}
    BY <1>2 DEF TakePermit, ExchangesTypeOK
  <2>. QED
    BY <1>1, <2>1, <2>2, QuietFits
<1>3. CASE RefusePermit(p) \/ Reject(p) \/ AcceptNotes(p)
  <2>1. UNCHANGED <<stdin[p], answered[p], lines[p], read[p], buffered[p], collected[p]>>
    BY <1>3, Zenon DEF RefusePermit, Reject, AcceptNotes
  <2>2. step[p] \in {"refuse", "parse"} /\ step'[p] \in {"done", "release"}
    BY <1>3 DEF RefusePermit, Reject, AcceptNotes, ExchangesTypeOK
  <2>. QED
    BY <1>1, <2>1, <2>2, QuietFits
<1>4. CASE SpawnChild(p)
  <2>1. UNCHANGED <<stdin[p], answered[p], lines[p], read[p], buffered[p], collected[p]>>
    BY <1>4, Zenon DEF SpawnChild
  <2>2. step[p] = "parse" /\ step'[p] = IF Initializes(p) THEN "forward" ELSE "init"
    BY <1>4 DEF SpawnChild, ExchangesTypeOK
  <2>. QED
    BY <1>1, <2>1, <2>2, QuietFits
<1>5. CASE InitFails(p)
  <2>1. UNCHANGED <<stdin[p], answered[p], lines[p], read[p], buffered[p], collected[p]>>
    BY <1>5, Zenon DEF InitFails
  <2>2. step[p] = "wait" /\ step'[p] = "kill" /\ reply'[p] \in {"init_timeout", "child_dead"}
    BY <1>5 DEF InitFails, InitTimesOut, ExchangesTypeOK
  <2>. QED
    BY <1>1, <2>1, <2>2, QuietFits
<1>6. CASE CollectEnds(p)
  <2>1. UNCHANGED <<stdin[p], answered[p], lines[p], read[p], buffered[p], collected[p], child[p]>>
    BY <1>6, Zenon DEF CollectEnds
  <2>2. step[p] = "collect" /\ step'[p] = "kill"
    BY <1>6 DEF CollectEnds, Respond, ExchangesTypeOK
  <2>3. expired'[p] \/ child[p] \in {"exited", "garbled"} \/ Responses(p) >= Expected(p)
    BY <1>6 DEF CollectEnds, NoMoreLines, ExchangesTypeOK
  <2>4. AnswersAll(p)'
    <3>1. CASE expired'[p]
      BY <3>1
    <3>2. CASE child[p] \in {"exited", "garbled"}
      BY <2>1, <3>2
    <3>3. CASE Responses(p) >= Expected(p)
      BY <2>1, <3>3, AllCollected DEF Requests
    <3>. QED
      BY <2>3, <3>1, <3>2, <3>3
  <2>. QED
    BY <1>1, <2>1, <2>2, <2>4, QuietFits
<1>7. CASE Kill(p)
  <2>1. UNCHANGED <<stdin[p], answered[p], lines[p], read[p], buffered[p], collected[p]>>
    BY <1>7, Zenon DEF Kill, printed
  <2>2. step[p] = "kill" /\ step'[p] = "release"
    BY <1>7 DEF Kill, ExchangesTypeOK
  <2>. QED
    BY <1>1, <2>1, <2>2, QuietFits
<1>8. CASE ChildEnds(p)
  <2>1. UNCHANGED <<stdin[p], answered[p], lines[p], read[p], buffered[p], collected[p]>>
    BY <1>8, Zenon DEF ChildEnds, ChildExits, ChildIsLost, ChildGarbles, ChildBecomes, printed
  <2>2. /\ step' = step /\ reply' = reply /\ expired' = expired
        /\ child[p] \in {"exited", "garbled"} => child'[p] \in {"exited", "garbled"}
    BY <1>8 DEF ChildEnds, ChildExits, ChildIsLost, ChildGarbles, ChildBecomes, ExchangesTypeOK
  <2>3. step'[p] \in {"init", "wait", "initialized"} => ~Initializes(p)
    BY <1>1, <2>2 DEF HandshakeFits
  <2>4. AnswersAll(p)'
    BY <1>1, <2>1, <2>2 DEF Requests
  <2>. QED
    BY <1>1, <2>1, <2>2, <2>3, <2>4, QuietFits
<1>9. CASE AcceptResponses(p)
  <2>1. UNCHANGED <<stdin[p], answered[p], lines[p], read[p], buffered[p], collected[p]>>
    BY <1>9, Zenon DEF AcceptResponses
  <2>2. step[p] = "collect" /\ step'[p] = "kill" /\ reply'[p] = "accepted"
    BY <1>9 DEF AcceptResponses, ExchangesTypeOK
  <2>. QED
    BY <1>1, <2>1, <2>2, QuietFits
<1>. QED
  BY <1>2, <1>3, <1>4, <1>5, <1>6, <1>7, <1>8, <1>9

-----------------------------------------------------------------------------
\* What ReadLine does: the first line moves to the lines that were read.
LEMMA LineIsRead ==
  ASSUME ExchangesTypeOK, NEW p \in Posts, ReadLine(p)
  PROVE  \E line \in Seq(Messages) :
           /\ line = Head(lines[p]) /\ line = lines[p][1] /\ 1 \in DOMAIN lines[p]
           /\ read'[p] = Append(read[p], line)
           /\ FlattenSeq(KeptOf(read'[p])) = FlattenSeq(KeptOf(read[p])) \o Kept(line)
           /\ \A i \in DOMAIN lines'[p] :
                i + 1 \in DOMAIN lines[p] /\ lines'[p][i] = lines[p][i + 1] /\ i \in Nat \ {0}
<1>1. OutputTypeOK(p)
  BY OutputTypes
<1>2. PICK ls \in Seq(Seq(Messages)) : ls = lines[p]
  BY <1>1 DEF OutputTypeOK
<1>3. PICK line \in Seq(Messages) : line = Head(ls)
  BY <1>2, TakenIsLess DEF ReadLine
<1>4. lines'[p] = Tail(ls) /\ read'[p] = Append(read[p], line)
  BY <1>2, <1>3 DEF ReadLine, ExchangesTypeOK
<1>5. FlattenSeq(KeptOf(Append(read[p], line))) = FlattenSeq(KeptOf(read[p])) \o Kept(line)
  <2>1. read[p] \in Seq(Seq(Messages))
    BY <1>1 DEF OutputTypeOK
  <2>. QED
    BY <2>1, KeptAppend
<1>6. /\ line = ls[1] /\ 1 \in DOMAIN ls
      /\ \A i \in DOMAIN Tail(ls) : i + 1 \in DOMAIN ls /\ Tail(ls)[i] = ls[i + 1] /\ i \in Nat \ {0}
  BY <1>2, <1>3 DEF ReadLine
<1>. QED
  BY <1>2, <1>3, <1>4, <1>5, <1>6

\* What is left of the lines fits what was left before.
LEMMA TailFits ==
  ASSUME ExchangesTypeOK, NEW p \in Posts, Fits(p), ReadLine(p), UNCHANGED answered[p]
  PROVE  /\ \A i \in DOMAIN lines'[p] :
              /\ AnswersOnce(lines'[p][i]) /\ AnswersIn(lines'[p][i]) \subseteq answered[p]
              /\ AnswersIn(lines'[p][i]) \cap AnswersIn(collected[p]) = {}
              /\ AnswersIn(lines'[p][i]) \cap AnswersIn(Head(lines[p])) = {}
              /\ \A j \in DOMAIN lines'[p] :
                   i # j => AnswersIn(lines'[p][i]) \cap AnswersIn(lines'[p][j]) = {}
         /\ AnswersOnce(Head(lines[p])) /\ AnswersIn(Head(lines[p])) \subseteq answered[p]
         /\ AnswersIn(Head(lines[p])) \cap AnswersIn(collected[p]) = {}
<1>1. AnswersFit(p)
  BY DEF Fits
<1>2. PICK line \in Seq(Messages) :
        /\ line = Head(lines[p]) /\ line = lines[p][1] /\ 1 \in DOMAIN lines[p]
        /\ \A i \in DOMAIN lines'[p] :
             i + 1 \in DOMAIN lines[p] /\ lines'[p][i] = lines[p][i + 1] /\ i \in Nat \ {0}
  BY LineIsRead
<1>3. (\A i \in Nat \ {0} : i + 1 # 1) /\ (\A i, j \in Nat \ {0} : i # j => i + 1 # j + 1)
  OBVIOUS
<1>4. \A i \in DOMAIN lines'[p] :
        /\ AnswersOnce(lines'[p][i]) /\ AnswersIn(lines'[p][i]) \subseteq answered[p]
        /\ AnswersIn(lines'[p][i]) \cap AnswersIn(collected[p]) = {}
  BY <1>1, <1>2, Zenon DEF AnswersFit
<1>5. \A i \in DOMAIN lines'[p] : AnswersIn(lines'[p][i]) \cap AnswersIn(line) = {}
  BY <1>1, <1>2, <1>3, Zenon DEF AnswersFit
<1>6. \A i, j \in DOMAIN lines'[p] :
        i # j => AnswersIn(lines'[p][i]) \cap AnswersIn(lines'[p][j]) = {}
  BY <1>1, <1>2, <1>3, Zenon DEF AnswersFit
<1>7. /\ AnswersOnce(line) /\ AnswersIn(line) \subseteq answered[p]
      /\ AnswersIn(line) \cap AnswersIn(collected[p]) = {}
  BY <1>1, <1>2, Zenon DEF AnswersFit
<1>. QED
  BY <1>2, <1>4, <1>5, <1>6, <1>7, Zenon

\* wait_for_init_response() reads a line.
LEMMA BufferFits ==
  ASSUME ExchangesTypeOK, NEW p \in Posts, Fits(p), BufferLine(p)
  PROVE  Fits(p)'
<1>1. OutputTypeOK(p) /\ HandshakeFits(p) /\ AnswersFit(p) /\ NothingCollected(p) /\ InOrder(p)
  BY OutputTypes DEF Fits
<1>2. ReadLine(p) /\ UNCHANGED <<answered[p], collected[p], stdin[p]>> /\ step[p] = "wait"
  BY Zenon DEF BufferLine, childVars, Goto
<1>3. step'[p] = IF UpToAnswer(Head(lines[p])) = 0 THEN "wait" ELSE "initialized"
  BY DEF BufferLine, Goto, ExchangesTypeOK
<1>4. PICK line \in Seq(Messages) :
        /\ line = Head(lines[p])
        /\ FlattenSeq(KeptOf(read'[p])) = FlattenSeq(KeptOf(read[p])) \o Kept(line)
  BY <1>2, LineIsRead
<1>5. collected[p] = <<>>
  BY <1>1, <1>2 DEF NothingCollected
<1>6. HandshakeFits(p)'
  <2>1. /\ ToSet(stdin'[p]) \subseteq ToSet(BodyOf[p]) \cup {"auto", "initialized"}
        /\ Initializes(p) => "auto" \notin ToSet(stdin'[p])
    BY <1>1, <1>2, Zenon DEF HandshakeFits
  <2>2. ~Initializes(p)
    BY <1>1, <1>2 DEF HandshakeFits
  <2>3. CASE UpToAnswer(line) = 0
    BY <1>3, <1>4, <2>1, <2>2, <2>3 DEF HandshakeFits, Initializes
  <2>4. CASE UpToAnswer(line) # 0
    <3>1. "auto" \in ToSet(line)
      BY <2>4, AnswerPlace
    <3>2. "auto" \in AnswersIn(line)
      BY <3>1 DEF AnswersIn, IsAnswer
    <3>3. "auto" \in answered[p]
      BY <1>2, <1>4, <3>2, TailFits, Zenon
    <3>4. \A i \in DOMAIN lines'[p] : AnswersIn(lines'[p][i]) \cap AnswersIn(line) = {}
      BY <1>2, <1>4, TailFits, Zenon
    <3>5. "auto" \notin {"note"}
      OBVIOUS
    <3>6. \A i \in DOMAIN lines'[p] : "auto" \notin ToSet(lines'[p][i])
      BY <3>2, <3>4, <3>5, Zenon DEF AnswersIn, IsAnswer
    <3>. QED
      BY <1>2, <2>1, <2>2, <3>3, <3>6, Zenon DEF HandshakeFits, Initializes
  <2>. QED
    BY <2>3, <2>4
<1>7. AnswersFit(p)'
  BY <1>1, <1>2, TailFits, Zenon DEF AnswersFit
<1>8. NothingCollected(p)' /\ AnswersAll(p)'
  <2>1. step'[p] # "kill"
    BY <1>3
  <2>. QED
    BY <1>2, <1>5, <2>1 DEF NothingCollected, AnswersAll
<1>9. InOrder(p)'
  <2>1. buffered'[p] = buffered[p] \o Kept(line)
    BY <1>4 DEF BufferLine, AfterBuffering, ExchangesTypeOK
  <2>2. buffered[p] \in Seq(Messages) /\ Kept(line) \in Seq(Messages)
    BY <1>1, AnswerPlace DEF OutputTypeOK
  <2>3. buffered[p] \o <<>> = buffered[p]
        /\ (buffered[p] \o Kept(line)) \o <<>> = buffered[p] \o Kept(line)
    BY <2>2
  <2>. QED
    BY <1>1, <1>2, <1>4, <1>5, <2>1, <2>3, Zenon DEF InOrder
<1>. QED
  BY <1>6, <1>7, <1>8, <1>9 DEF Fits

\* collect_responses() reads a line.
LEMMA CollectFits ==
  ASSUME ExchangesTypeOK, NEW p \in Posts, Fits(p), CollectLine(p)
  PROVE  Fits(p)'
<1>1. OutputTypeOK(p) /\ HandshakeFits(p) /\ AnswersFit(p) /\ InOrder(p)
  BY OutputTypes DEF Fits
<1>2. /\ ReadLine(p) /\ UNCHANGED <<answered[p], buffered[p], stdin[p]>>
      /\ step[p] = "collect" /\ step'[p] = "collect"
  BY Zenon DEF CollectLine, childVars
<1>3. PICK line \in Seq(Messages) :
        /\ line = Head(lines[p]) /\ line = lines[p][1] /\ 1 \in DOMAIN lines[p]
        /\ FlattenSeq(KeptOf(read'[p])) = FlattenSeq(KeptOf(read[p])) \o Kept(line)
        /\ \A i \in DOMAIN lines'[p] : i + 1 \in DOMAIN lines[p] /\ lines'[p][i] = lines[p][i + 1]
  BY <1>2, LineIsRead
<1>4. PICK c \in Seq(Messages) : c = collected[p]
  BY <1>1 DEF OutputTypeOK
<1>5. collected'[p] = c \o line
  BY <1>3, <1>4 DEF CollectLine, ExchangesTypeOK
<1>6. /\ AnswersIn(c \o line) = AnswersIn(c) \cup AnswersIn(line)
      /\ AnswersOnce(c \o line)
  <2>1. AnswersOnce(c) /\ AnswersOnce(line) /\ AnswersIn(c) \cap AnswersIn(line) = {}
    <3>1. AnswersOnce(c)
      BY <1>1, <1>4, Zenon DEF AnswersFit
    <3>2. AnswersOnce(line) /\ AnswersIn(line) \cap AnswersIn(c) = {}
      BY <1>2, <1>3, <1>4, TailFits, Zenon
    <3>. QED
      BY <3>1, <3>2, Zenon
  <2>. QED
    BY <2>1, AnswersOfJoined, ZenonT(60)
<1>7. "auto" \notin ToSet(line)
  BY <1>1, <1>2, <1>3 DEF HandshakeFits
<1>8. HandshakeFits(p)'
  <2>1. \A i \in DOMAIN lines'[p] : "auto" \notin ToSet(lines'[p][i])
    BY <1>1, <1>2, <1>3 DEF HandshakeFits
  <2>. QED
    BY <1>1, <1>2, <2>1 DEF HandshakeFits, Initializes
<1>9. AnswersFit(p)'
  <2>1. AnswersIn(line) \subseteq answered[p] \ {"auto"}
    <3>1. AnswersIn(line) \subseteq answered[p]
      BY <1>2, <1>3, TailFits, Zenon
    <3>. QED
      BY <1>7, <3>1, Zenon DEF AnswersIn
  <2>2. AnswersIn(c) \subseteq answered[p] \ {"auto"}
    BY <1>1, <1>4, Zenon DEF AnswersFit
  <2>3. \A i \in DOMAIN lines'[p] :
          /\ AnswersOnce(lines'[p][i]) /\ AnswersIn(lines'[p][i]) \subseteq answered[p]
          /\ AnswersIn(lines'[p][i]) \cap AnswersIn(c) = {}
          /\ AnswersIn(lines'[p][i]) \cap AnswersIn(line) = {}
          /\ \A j \in DOMAIN lines'[p] :
               i # j => AnswersIn(lines'[p][i]) \cap AnswersIn(lines'[p][j]) = {}
    BY <1>2, <1>3, <1>4, TailFits, Zenon
  <2>4. \A i \in DOMAIN lines'[p] : AnswersIn(lines'[p][i]) \cap AnswersIn(c \o line) = {}
    BY <1>6, <2>3, Zenon
  <2>5. AnswersOnce(c \o line) /\ AnswersIn(c \o line) \subseteq answered[p] \ {"auto"}
    BY <1>6, <2>1, <2>2, Zenon
  <2>6. answered'[p] \subseteq {m \in ToSet(stdin'[p]) : IsRequest(m)}
    BY <1>1, <1>2, Zenon DEF AnswersFit
  <2>. QED
    BY <1>2, <1>5, <2>3, <2>4, <2>5, <2>6, Zenon DEF AnswersFit
<1>10. NothingCollected(p)' /\ AnswersAll(p)'
  BY <1>2 DEF NothingCollected, AnswersAll
<1>11. InOrder(p)'
  <2>1. Kept(line) = line
    BY <1>7, AnswerPlace
  <2>2. PICK b \in Seq(Messages) : b = buffered[p]
    BY <1>1 DEF OutputTypeOK
  <2>3. b \o (c \o line) = (b \o c) \o line
    BY JoinedAgain
  <2>. QED
    BY <1>1, <1>2, <1>3, <1>4, <1>5, <2>1, <2>2, <2>3, Zenon DEF InOrder
<1>. QED
  BY <1>8, <1>9, <1>10, <1>11 DEF Fits

-----------------------------------------------------------------------------
\* A child answers only what it was asked, once, on a line of its own or of two.
LEMMA PrintedLine ==
  ASSUME NEW p \in Posts, OutputTypeOK(p), NEW line \in Lines(p), Cardinality(ToSet(line)) = Len(line)
  PROVE  /\ line \in Seq(Messages) /\ AnswersOnce(line) /\ AnswersIn(line) \subseteq Owed(p)
         /\ ToSet(line) \subseteq Owed(p) \cup {"note"}
         /\ Owed(p) \cup {"note"} \subseteq Messages
<1>1. PICK R : R = Owed(p) \cup {"note"}
  OBVIOUS
<1>2. Owed(p) \cup {"note"} \subseteq Messages
  BY DEF Owed, Messages, IsRequest
<1>3. (\E m \in R : line = <<m>>) \/ (\E m, n \in R : line = <<m, n>>)
  BY <1>1 DEF Lines
<1>4. line \in Seq(Messages) /\ ToSet(line) \subseteq R
  <2>1. \A m, n \in R : m \in Messages /\ <<m>> \in Seq(Messages) /\ <<m, n>> \in Seq(Messages)
    BY <1>1, <1>2
  <2>2. \A m, n : ToSet(<<m>>) = {m} /\ ToSet(<<m, n>>) = {m, n}
    BY DEF ToSet
  <2>3. CASE \E m \in R : line = <<m>>
    BY <2>1, <2>2, <2>3, ZenonT(60)
  <2>4. CASE \E m, n \in R : line = <<m, n>>
    <3>1. PICK m \in R, n \in R : line = <<m, n>>
      BY <2>4
    <3>2. <<m, n>> \in Seq(Messages) /\ ToSet(<<m, n>>) = {m, n}
      BY <2>1, <2>2, Zenon
    <3>. QED
      BY <3>1, <3>2, Zenon
  <2>. QED
    BY <1>3, <2>3, <2>4
<1>5. AnswersOnce(line)
  <2>1. CASE \E m \in R : line = <<m>>
    BY <2>1 DEF AnswersOnce
  <2>2. ASSUME NEW m \in R, NEW n \in R, line = <<m, n>> PROVE AnswersOnce(line)
    <3>1. ToSet(line) = {m, n} /\ Len(line) = 2
      BY <2>2 DEF ToSet
    <3>2. m # n
      <4>1. SUFFICES ASSUME m = n PROVE FALSE
        OBVIOUS
      <4>2. ToSet(line) = {m} /\ Cardinality({m}) = 1
        BY <3>1, <4>1, FS_Singleton
      <4>. QED
        BY <3>1, <4>2
    <3>. QED
      BY <2>2, <3>2 DEF AnswersOnce
  <2>. QED
    BY <1>3, <2>1, <2>2
<1>6. AnswersIn(line) \subseteq Owed(p)
  BY <1>1, <1>4, Zenon DEF AnswersIn, IsAnswer
<1>. QED
  BY <1>1, <1>2, <1>4, <1>5, <1>6

LEMMA PrintFits ==
  ASSUME ExchangesTypeOK, NEW p \in Posts, Fits(p), ChildPrints(p)
  PROVE  Fits(p)'
<1>1. OutputTypeOK(p) /\ HandshakeFits(p) /\ AnswersFit(p) /\ NothingCollected(p) /\ AnswersAll(p) /\ InOrder(p)
  BY OutputTypes DEF Fits
<1>2. UNCHANGED <<step, stdin, child, read, buffered, collected, reply, expired>>
  BY Zenon DEF ChildPrints
<1>3. PICK line \in Lines(p) :
        /\ Cardinality(ToSet(line)) = Len(line)
        /\ answered' = [answered EXCEPT ![p] = @ \cup (ToSet(line) \ {"note"})]
        /\ lines' = [lines EXCEPT ![p] = Append(@, line)]
  BY Zenon DEF ChildPrints
<1>4. /\ line \in Seq(Messages) /\ AnswersOnce(line) /\ AnswersIn(line) \subseteq Owed(p)
      /\ ToSet(line) \subseteq Owed(p) \cup {"note"}
  BY <1>1, <1>3, PrintedLine
<1>5. answered'[p] = answered[p] \cup AnswersIn(line)
  <2>1. AnswersIn(line) = ToSet(line) \ {"note"}
    BY Zenon DEF AnswersIn, IsAnswer
  <2>. QED
    BY <1>3, <2>1, Zenon DEF ExchangesTypeOK
<1>6. PICK n \in Nat : n = Len(lines[p])
  BY <1>1 DEF OutputTypeOK
<1>7. lines'[p] = Append(lines[p], line)
  BY <1>3, Zenon DEF ExchangesTypeOK
<1>8. PICK ls \in Seq(Seq(Messages)), tt \in Seq(Seq(Messages)) : ls = lines[p] /\ tt = lines'[p]
  <2>1. lines[p] \in Seq(Seq(Messages))
    BY <1>1 DEF OutputTypeOK
  <2>2. Append(lines[p], line) \in Seq(Seq(Messages))
    BY <1>4, <2>1
  <2>. QED
    BY <1>7, <2>1, <2>2
<1>9. Longer(tt, ls, line, n)
  <2>1. Longer(Append(ls, line), ls, line, n)
    BY <1>4, <1>6, <1>8, AppendParts, Zenon
  <2>. QED
    BY <1>7, <1>8, <2>1, Zenon
<1>10. DOMAIN ls = 1..n /\ DOMAIN tt = 1..(n + 1)
  <2>1. Len(ls) = n /\ Len(tt) = n + 1
    BY <1>6, <1>8, <1>9 DEF Longer
  <2>. QED
    BY <1>8, <2>1
<1>11. \A i \in DOMAIN tt : (i \in DOMAIN ls /\ tt[i] = ls[i]) \/ (i = n + 1 /\ tt[i] = line)
  <2>1. \A i \in 1..(n + 1) : i \in 1..n \/ i = n + 1
    BY <1>6
  <2>. QED
    BY <1>9, <1>10, <2>1, Zenon DEF Longer
<1>12. Owed(p) \cap answered[p] = {} /\ \A m \in Owed(p) : m \in ToSet(stdin[p]) /\ IsRequest(m)
  BY Zenon DEF Owed
<1>13. HandshakeFits(p)'
  <2>1. /\ ToSet(stdin'[p]) \subseteq ToSet(BodyOf[p]) \cup {"auto", "initialized"}
        /\ Initializes(p) => "auto" \notin ToSet(stdin'[p])
        /\ step'[p] \in {"init", "wait", "initialized"} => ~Initializes(p)
    BY <1>1, <1>2, Zenon DEF HandshakeFits
  <2>2. ASSUME step[p] \in {"initialized", "forward", "collect"}
        PROVE  /\ "auto" \in ToSet(stdin[p]) => "auto" \in answered'[p]
               /\ \A i \in DOMAIN tt : "auto" \notin ToSet(tt[i])
    <3>1. "auto" \in ToSet(stdin[p]) => "auto" \in answered[p]
      BY <1>1, <2>2, Zenon DEF HandshakeFits
    <3>2. "auto" \notin ToSet(line)
      <4>1. "auto" # "note"
        OBVIOUS
      <4>. QED
        BY <1>4, <1>12, <3>1, <4>1, Zenon
    <3>3. \A i \in DOMAIN ls : "auto" \notin ToSet(ls[i])
      BY <1>1, <1>8, <2>2, Zenon DEF HandshakeFits
    <3>. QED
      BY <1>5, <1>11, <3>1, <3>2, <3>3, Zenon
  <2>. QED
    BY <1>2, <1>8, <2>1, <2>2, Zenon DEF HandshakeFits, Initializes
<1>14. AnswersFit(p)'
  <2>1. answered'[p] \subseteq {m \in ToSet(stdin'[p]) : IsRequest(m)}
    BY <1>1, <1>2, <1>4, <1>5, <1>12, Zenon DEF AnswersFit
  <2>2. \A i \in DOMAIN tt :
          /\ AnswersOnce(tt[i]) /\ AnswersIn(tt[i]) \subseteq answered'[p]
          /\ AnswersIn(tt[i]) \cap AnswersIn(collected[p]) = {}
    BY <1>1, <1>4, <1>5, <1>8, <1>11, <1>12, Zenon DEF AnswersFit
  <2>3. \A i, j \in DOMAIN tt : i # j => AnswersIn(tt[i]) \cap AnswersIn(tt[j]) = {}
    BY <1>1, <1>4, <1>5, <1>8, <1>11, <1>12, Zenon DEF AnswersFit
  <2>4. AnswersOnce(collected[p]) /\ AnswersIn(collected[p]) \subseteq answered'[p] \ {"auto"}
    BY <1>1, <1>5, Zenon DEF AnswersFit
  <2>. QED
    BY <1>2, <1>8, <2>1, <2>2, <2>3, <2>4, Zenon DEF AnswersFit
<1>15. NothingCollected(p)' /\ AnswersAll(p)' /\ InOrder(p)'
  BY <1>1, <1>2, Zenon DEF NothingCollected, AnswersAll, InOrder
<1>. QED
  BY <1>13, <1>14, <1>15 DEF Fits

LEMMA EmptyFits ==
  ASSUME NEW p \in Posts,
         stdin[p] = <<>>, lines[p] = <<>>, read[p] = <<>>, buffered[p] = <<>>, collected[p] = <<>>,
         answered[p] = {}, step[p] \in {"new", "done"}
  PROVE  Fits(p)
<1>1. ToSet(stdin[p]) = {} /\ AnswersIn(collected[p]) = {} /\ AnswersOnce(collected[p])
  BY DEF ToSet, AnswersIn, AnswersOnce
<1>2. HandshakeFits(p)
  BY <1>1 DEF HandshakeFits
<1>3. AnswersFit(p)
  BY <1>1 DEF AnswersFit
<1>4. NothingCollected(p) /\ AnswersAll(p)
  BY DEF NothingCollected, AnswersAll
<1>5. InOrder(p)
  <2>1. KeptOf(<<>>) = <<>>
    BY DEF KeptOf
  <2>2. FlattenSeq(<<>>) = <<>> /\ <<>> \o <<>> = <<>>
    BY DEF FlattenSeq
  <2>. QED
    BY <2>1, <2>2 DEF InOrder
<1>. QED
  BY <1>2, <1>3, <1>4, <1>5 DEF Fits

LEMMA ReleaseFits ==
  ASSUME ExchangesTypeOK, NEW p \in Posts, Release(p)
  PROVE  Fits(p)'
<1>0. /\ stdin'[p] = <<>> /\ lines'[p] = <<>> /\ read'[p] = <<>> /\ buffered'[p] = <<>>
      /\ collected'[p] = <<>> /\ answered'[p] = {} /\ step'[p] = "done"
  BY Zenon DEF Release, Goto, ExchangesTypeOK
<1>1. ToSet(stdin'[p]) = {} /\ AnswersIn(collected'[p]) = {} /\ AnswersOnce(collected'[p])
  BY <1>0 DEF ToSet, AnswersIn, AnswersOnce
<1>2. HandshakeFits(p)'
  BY <1>0, <1>1 DEF HandshakeFits
<1>3. AnswersFit(p)'
  BY <1>0, <1>1 DEF AnswersFit
<1>4. NothingCollected(p)' /\ AnswersAll(p)'
  BY <1>0 DEF NothingCollected, AnswersAll
<1>5. InOrder(p)'
  <2>1. KeptOf(<<>>) = <<>>
    BY DEF KeptOf
  <2>2. FlattenSeq(<<>>) = <<>> /\ <<>> \o <<>> = <<>>
    BY DEF FlattenSeq
  <2>. QED
    BY <1>0, <2>1, <2>2 DEF InOrder
<1>. QED
  BY <1>2, <1>3, <1>4, <1>5 DEF Fits

-----------------------------------------------------------------------------
LEMMA QuietTypes ==
  ASSUME ExchangesTypeOK, NEW p \in Posts,
         \/ TakePermit(p) \/ RefusePermit(p) \/ Reject(p) \/ AcceptNotes(p) \/ SpawnChild(p)
         \/ InitFails(p) \/ AcceptResponses(p) \/ CollectEnds(p) \/ Kill(p) \/ ChildEnds(p)
  PROVE  ExchangesTypeOK'
<1>. USE DEF ExchangesTypeOK, childVars, printed, outVars, Goto, Reply
<1>. USE DEF TakePermit, RefusePermit, Reject, AcceptNotes, SpawnChild, InitFails, InitTimesOut,
             AcceptResponses, CollectEnds, Respond, Kill, ChildEnds, ChildExits, ChildIsLost,
             ChildGarbles, ChildBecomes
<1>0. UNCHANGED <<stdin, answered, notes, lines, read, buffered, collected>>
  BY Zenon
<1>1. step' \in [Posts -> Steps]
  BY DEF Steps
<1>2. child' \in [Posts -> Children]
  BY ZenonT(60) DEF KillLeaves, Children
<1>3. /\ expired' \in [Posts -> BOOLEAN]
      /\ reply' \in [Posts -> {"none", "rejected", "accepted", "child_dead",
                               "init_timeout", "no_answer", "sse"}]
  BY ZenonT(60)
<1>. QED
  BY <1>0, <1>1, <1>2, <1>3, Zenon

LEMMA WriteTypes ==
  ASSUME ExchangesTypeOK, NEW p \in Posts, NEW m \in Messages, NEW from, NEW to \in Steps,
         Write(p, m, from, to)
  PROVE  ExchangesTypeOK'
<1>1. UNCHANGED <<expired, answered, notes, lines, read, buffered, collected>>
  BY Zenon DEF Write, printed, outVars
<1>2. step' \in [Posts -> Steps]
  <2>1. step \in [Posts -> Steps] /\ "kill" \in Steps
    BY DEF ExchangesTypeOK, Steps
  <2>2. step' = [step EXCEPT ![p] = to] \/ step' = [step EXCEPT ![p] = "kill"]
    BY Zenon DEF Write, Goto, Reply
  <2>. QED
    BY <2>1, <2>2, Zenon
<1>3. /\ reply' \in [Posts -> {"none", "rejected", "accepted", "child_dead",
                                  "init_timeout", "no_answer", "sse"}]
      /\ child' \in [Posts -> Children]
  BY DEF ExchangesTypeOK, Write, Goto, Reply, Children
<1>4. stdin' \in [Posts -> Seq(Messages)]
  <2>1. stdin \in [Posts -> Seq(Messages)] /\ stdin[p] \in Seq(Messages)
    BY OutputTypes, Zenon DEF ExchangesTypeOK, OutputTypeOK
  <2>2. Append(stdin[p], m) \in Seq(Messages)
    BY <2>1, ToSetOfAppend, Zenon
  <2>3. [stdin EXCEPT ![p] = Append(stdin[p], m)] \in [Posts -> Seq(Messages)]
    BY <2>1, <2>2, UpdateTypes, Zenon
  <2>. QED
    BY <2>1, <2>3, Zenon DEF Write
<1>. QED
  BY <1>1, <1>2, <1>3, <1>4, Zenon DEF ExchangesTypeOK

LEMMA ReadTypes ==
  ASSUME ExchangesTypeOK, NEW p \in Posts, ReadLine(p)
  PROVE  lines' \in [Posts -> Seq(Seq(Messages))] /\ read' \in [Posts -> Seq(Seq(Messages))]
<1>1. /\ lines \in [Posts -> Seq(Seq(Messages))] /\ read \in [Posts -> Seq(Seq(Messages))]
      /\ lines[p] \in Seq(Seq(Messages)) /\ read[p] \in Seq(Seq(Messages)) /\ lines[p] # <<>>
  BY OutputTypes, Zenon DEF ExchangesTypeOK, OutputTypeOK, ReadLine
<1>2. Tail(lines[p]) \in Seq(Seq(Messages)) /\ Head(lines[p]) \in Seq(Messages)
  BY <1>1, TakenIsLess, Zenon
<1>3. Append(read[p], Head(lines[p])) \in Seq(Seq(Messages))
  BY <1>1, <1>2, ToSetOfAppend, Zenon
<1>4. /\ [lines EXCEPT ![p] = Tail(lines[p])] \in [Posts -> Seq(Seq(Messages))]
      /\ [read EXCEPT ![p] = Append(read[p], Head(lines[p]))] \in [Posts -> Seq(Seq(Messages))]
  BY <1>1, <1>2, <1>3, UpdateTypes, Zenon
<1>. QED
  BY <1>4, Zenon DEF ReadLine

LEMMA LineTypes ==
  ASSUME ExchangesTypeOK, NEW p \in Posts, BufferLine(p) \/ CollectLine(p)
  PROVE  ExchangesTypeOK'
<1>1. /\ UNCHANGED <<expired, child, answered, notes, stdin, reply>> /\ ReadLine(p)
      /\ Head(lines[p]) \in Seq(Messages) /\ OutputTypeOK(p)
  <2>1. ReadLine(p) /\ lines[p] # <<>>
    BY DEF BufferLine, CollectLine, ReadLine
  <2>2. Head(lines[p]) \in Seq(Messages)
    BY <2>1, OutputTypes, TakenIsLess, Zenon DEF OutputTypeOK
  <2>. QED
    BY <2>1, <2>2, OutputTypes, Zenon DEF BufferLine, CollectLine, childVars
<1>2. lines' \in [Posts -> Seq(Seq(Messages))] /\ read' \in [Posts -> Seq(Seq(Messages))]
  BY <1>1, ReadTypes
<1>3. step' \in [Posts -> Steps]
  BY DEF ExchangesTypeOK, BufferLine, CollectLine, Goto, Steps
<1>4. /\ buffered \in [Posts -> Seq(Messages)] /\ collected \in [Posts -> Seq(Messages)]
      /\ buffered[p] \in Seq(Messages) /\ collected[p] \in Seq(Messages)
  BY <1>1, Zenon DEF ExchangesTypeOK, OutputTypeOK
<1>5. CASE BufferLine(p)
  <2>1. AfterBuffering(p, Kept(Head(lines[p]))) \in Seq(Messages)
    <3>1. Kept(Head(lines[p])) \in Seq(Messages)
      BY <1>1, AnswerPlace, Zenon
    <3>. QED
      BY <1>4, <3>1 DEF AfterBuffering
  <2>2. buffered' \in [Posts -> Seq(Messages)]
    BY <1>4, <1>5, <2>1, UpdateTypes, Zenon DEF BufferLine
  <2>3. UNCHANGED collected
    BY <1>5, Zenon DEF BufferLine
  <2>. QED
    BY <1>1, <1>2, <1>3, <1>4, <2>2, <2>3, Zenon DEF ExchangesTypeOK
<1>6. CASE CollectLine(p)
  <2>1. collected[p] \o Head(lines[p]) \in Seq(Messages)
    BY <1>1, <1>4
  <2>2. [collected EXCEPT ![p] = collected[p] \o Head(lines[p])] \in [Posts -> Seq(Messages)]
    BY <1>4, <2>1, UpdateTypes, Zenon
  <2>3. collected' \in [Posts -> Seq(Messages)]
    BY <1>6, <2>2, Zenon DEF CollectLine
  <2>. QED
    BY <1>1, <1>2, <1>3, <1>6, <2>3, ZenonT(60) DEF ExchangesTypeOK, CollectLine
<1>. QED
  BY <1>5, <1>6

LEMMA PrintTypes ==
  ASSUME ExchangesTypeOK, NEW p \in Posts, ChildPrints(p)
  PROVE  ExchangesTypeOK'
<1>1. OutputTypeOK(p) /\ lines \in [Posts -> Seq(Seq(Messages))]
  BY OutputTypes, Zenon DEF ExchangesTypeOK
<1>2. UNCHANGED <<step, stdin, child, read, buffered, collected, reply, expired>>
  BY Zenon DEF ChildPrints
<1>3. PICK line \in Lines(p) : \E more :
        /\ more = Cardinality({i \in DOMAIN line : line[i] = "note"})
        /\ Cardinality(ToSet(line)) = Len(line) /\ notes[p] + more <= MaxNotes
        /\ notes' = [notes EXCEPT ![p] = @ + more]
        /\ answered' = [answered EXCEPT ![p] = @ \cup (ToSet(line) \ {"note"})]
        /\ lines' = [lines EXCEPT ![p] = Append(@, line)]
  BY Zenon DEF ChildPrints
<1>4. line \in Seq(Messages) /\ ToSet(line) \subseteq Messages
  BY <1>1, <1>3, PrintedLine, Zenon
<1>5. Cardinality({i \in DOMAIN line : line[i] = "note"}) \in Nat
  <2>1. IsFiniteSet(DOMAIN line)
    BY <1>4, PlacesAreFinite, Zenon
  <2>2. {i \in DOMAIN line : line[i] = "note"} \subseteq DOMAIN line
    OBVIOUS
  <2>3. IsFiniteSet({i \in DOMAIN line : line[i] = "note"})
    BY <2>1, <2>2, FS_Subset, Zenon
  <2>. QED
    BY <2>3, FS_CardinalityType, Zenon
<1>6. notes' \in [Posts -> 0..MaxNotes]
  BY <1>3, <1>5, LimitsAreNat DEF ExchangesTypeOK
<1>7. answered' \in [Posts -> SUBSET Messages]
  <2>1. answered' = [answered EXCEPT ![p] = answered[p] \cup (ToSet(line) \ {"note"})]
    BY <1>3, Zenon
  <2>2. answered \in [Posts -> SUBSET Messages]
    BY Zenon DEF ExchangesTypeOK
  <2>3. answered[p] \cup (ToSet(line) \ {"note"}) \in SUBSET Messages
    BY <1>4, <2>2, Zenon
  <2>. QED
    BY <2>1, <2>2, <2>3, UpdateTypes, Zenon
<1>8. lines' \in [Posts -> Seq(Seq(Messages))]
  <2>1. Append(lines[p], line) \in Seq(Seq(Messages))
    BY <1>1, <1>4, ToSetOfAppend, Zenon DEF OutputTypeOK
  <2>2. [lines EXCEPT ![p] = Append(lines[p], line)] \in [Posts -> Seq(Seq(Messages))]
    BY <1>1, <2>1, UpdateTypes, Zenon
  <2>. QED
    BY <1>3, <2>2, Zenon
<1>. QED
  BY <1>2, <1>6, <1>7, <1>8, Zenon DEF ExchangesTypeOK

LEMMA EmptyTypes ==
  <<>> \in Seq(Messages) /\ <<>> \in Seq(Seq(Messages)) /\ 0 \in 0..MaxNotes
  BY LimitsAreNat

LEMMA ReleaseTypes ==
  ASSUME ExchangesTypeOK, NEW p \in Posts, Release(p)
  PROVE  ExchangesTypeOK'
<1>1. step' \in [Posts -> Steps]
  BY DEF ExchangesTypeOK, Release, Goto, Steps
<1>2. notes' \in [Posts -> 0..MaxNotes]
  BY EmptyTypes, Zenon DEF ExchangesTypeOK, Release
<1>3. /\ stdin' \in [Posts -> Seq(Messages)] /\ buffered' \in [Posts -> Seq(Messages)]
      /\ collected' \in [Posts -> Seq(Messages)]
  BY EmptyTypes, UpdateTypes, Zenon DEF ExchangesTypeOK, Release
<1>4. lines' \in [Posts -> Seq(Seq(Messages))] /\ read' \in [Posts -> Seq(Seq(Messages))]
  BY EmptyTypes, UpdateTypes, Zenon DEF ExchangesTypeOK, Release
<1>5. answered' \in [Posts -> SUBSET Messages]
  BY Zenon DEF ExchangesTypeOK, Release
<1>6. /\ UNCHANGED child /\ expired' \in [Posts -> BOOLEAN]
      /\ reply' \in [Posts -> {"none", "rejected", "accepted", "child_dead",
                               "init_timeout", "no_answer", "sse"}]
  BY DEF ExchangesTypeOK, Release
<1>. QED
  BY <1>1, <1>2, <1>3, <1>4, <1>5, <1>6, Zenon DEF ExchangesTypeOK

LEMMA TypesStay ==
  ASSUME ExchangesTypeOK, NEW p \in Posts, Handles(p) \/ ChildPrints(p) \/ ChildEnds(p)
  PROVE  ExchangesTypeOK'
<1>1. CASE SendInit(p)
  BY <1>1, WriteTypes DEF SendInit, Messages, Steps
<1>2. CASE SendInitialized(p)
  BY <1>2, WriteTypes DEF SendInitialized, Messages, Steps
<1>3. CASE ForwardNext(p)
  <2>1. BodyOf[p][Forwarded(p) + 1] \in Messages
    BY <1>3, ForwardedIsNext
  <2>2. PICK m \in Messages, to \in {"collect", "forward"} : Write(p, m, "forward", to)
    BY <1>3, <2>1 DEF ForwardNext
  <2>3. to \in Steps
    BY DEF Steps
  <2>. QED
    BY <2>2, <2>3, WriteTypes, Zenon
<1>. QED
  BY <1>1, <1>2, <1>3, QuietTypes, LineTypes, PrintTypes, ReleaseTypes
  DEF Handles, Handle, Writes

LEMMA RepliesStay ==
  ASSUME ExchangesTypeOK, NEW p \in Posts, Fits(p), Handles(p) \/ ChildPrints(p) \/ ChildEnds(p)
  PROVE  Fits(p)'
  BY QuietSteps, WritesFit, BufferFits, CollectFits, PrintFits, ReleaseFits
  DEF Handles, Handle, Writes

LEMMA RepliesAreFits ==
  RepliesIInv <=> ExchangesTypeOK /\ \A p \in Posts : Fits(p)
  BY Zenon DEF RepliesIInv, ReplyIsComplete, Fits, InOrder

\* The invariant behind ReplyIsComplete: handshake, input, output and reply of an
\* exchange fit together.
THEOREM RepliesInvariant == HttpSpec => []RepliesIInv
<1>1. HttpInit => RepliesIInv
  <2>1. SUFFICES ASSUME HttpInit PROVE ExchangesTypeOK /\ \A p \in Posts : Fits(p)
    BY RepliesAreFits
  <2>2. ExchangesTypeOK
    BY <2>1, EmptyTypes, Zenon DEF HttpInit, ExchangesTypeOK, Steps, Children
  <2>3. ASSUME NEW p \in Posts PROVE Fits(p)
    <3>1. /\ stdin[p] = <<>> /\ lines[p] = <<>> /\ read[p] = <<>> /\ buffered[p] = <<>>
          /\ collected[p] = <<>> /\ answered[p] = {} /\ step[p] = "new"
      BY <2>1, Zenon DEF HttpInit
    <3>. QED
      BY <3>1, EmptyFits
  <2>. QED
    BY <2>2, <2>3
<1>2. RepliesIInv /\ [HttpNext]_hvars => RepliesIInv'
  <2>1. ASSUME ExchangesTypeOK, \A q \in Posts : Fits(q), NEW p \in Posts,
               Handles(p) \/ ChildPrints(p) \/ ChildEnds(p)
        PROVE  ExchangesTypeOK' /\ \A q \in Posts : Fits(q)'
    <3>1. ExchangesTypeOK'
      BY <2>1, TypesStay
    <3>2. Fits(p)'
      BY <2>1, RepliesStay
    <3>3. ASSUME NEW q \in Posts, q # p PROVE Fits(q)'
      BY <2>1, <3>3, OthersStay, FitsStays
    <3>. QED
      BY <3>1, <3>2, <3>3
  <2>2. ASSUME RepliesIInv, UNCHANGED hvars PROVE RepliesIInv'
    <3>1. ExchangesTypeOK /\ \A q \in Posts : Fits(q)
      BY <2>2, RepliesAreFits
    <3>2. ExchangesTypeOK' /\ \A q \in Posts : Fits(q)'
      BY <2>2, <3>1, FitsStays, Zenon DEF hvars, ExchangesTypeOK
    <3>. QED
      BY <3>2, Zenon DEF RepliesIInv, ReplyIsComplete, Fits, InOrder
  <2>3. ASSUME RepliesIInv, HttpNext PROVE RepliesIInv'
    <3>1. ExchangesTypeOK' /\ \A q \in Posts : Fits(q)'
      BY <2>1, <2>3, RepliesAreFits, Zenon DEF HttpNext, Handles, ChildEnds
    <3>. QED
      BY <3>1, Zenon DEF RepliesIInv, ReplyIsComplete, Fits, InOrder
  <2>. QED
    BY <2>2, <2>3
<1>. QED
  BY <1>1, <1>2, PTL DEF HttpSpec

\* A reply that is a stream answers every request of its body, and holds all the
\* child printed, in its order, across the two readers of its output.
THEOREM RepliesAreComplete == HttpSpec => []ReplyIsComplete
<1>1. RepliesIInv => ReplyIsComplete
  BY DEF RepliesIInv
<1>. QED
  BY <1>1, RepliesInvariant, PTL

\* Every variable keeps its type: active is the number of handlers that hold a
\* permit, never more than there are requests.
THEOREM HttpTypesHold == HttpSpec => []HttpTypeOK
<1>1. PermitsIInv /\ RepliesIInv => HttpTypeOK
  <2>1. SUFFICES ASSUME PermitsIInv, RepliesIInv PROVE active \in 0..Cardinality(Posts)
    BY DEF HttpTypeOK, RepliesIInv
  <2>2. Holding \subseteq Posts
    BY DEF Holding
  <2>3. Cardinality(Holding) <= Cardinality(Posts) /\ Cardinality(Posts) \in Nat
    BY <2>2, PostsAreFinite, FS_Subset, FS_CardinalityType
  <2>. QED
    BY <2>1, <2>3, HoldersAreCounted DEF PermitsIInv
<1>. QED
  BY <1>1, PermitsInvariant, RepliesInvariant, PTL
=============================================================================
