-------------------------- MODULE ChildBridgeProofs --------------------------
(***************************************************************************)
(* Proofs about the child.  StdoutCodec, for any limits: however the pipe  *)
(* cuts what the child prints, the messages are those of the lines before  *)
(* the first fatal one.  ChildBridge, for any writers, capacities and      *)
(* natures of the child: the dead flag does not lie, and the relay misses  *)
(* an exit code only in the windows ExitCodeIsFound names.                 *)
(***************************************************************************)
EXTENDS ChildBridge, StdoutCodec, FiniteSetTheorems, WellFoundedInduction, TLAPS

-----------------------------------------------------------------------------
(***************************************************************************)
(* The lines of a text: where one ends, what is on it, and that what is    *)
(* printed later changes no line before a line feed.                       *)
(***************************************************************************)

LEMMA MinIsLeast ==
  ASSUME NEW S, S \subseteq Nat, S # {}
  PROVE  Min(S) \in S /\ \A y \in S : Min(S) <= y
<1>1. PICK x \in S : \A y \in S : <<y, x>> \notin OpToRel(<, Nat)
  BY NatLessThanWellFounded, WFMin
<1>2. ASSUME NEW y \in S PROVE x <= y
  <2>1. x \in Nat /\ y \in Nat
    OBVIOUS
  <2>2. ~(y < x)
    BY <1>1, <2>1 DEF OpToRel
  <2>. QED
    BY <2>1, <2>2
<1>. QED
  BY <1>2 DEF Min

\* The byte at which a line that starts at i may end.
IsEnd(text, i, e) ==
  /\ e \in (i + 1)..(Len(text) + 1)
  /\ e = Len(text) + 1 \/ text[e] = "lf"
  /\ \A k \in (i + 1)..(e - 1) : text[k] # "lf"

LEMMA StartsAre ==
  ASSUME NEW text \in Seq(Bytes)
  PROVE  /\ Starts(text) \subseteq 0..Len(text)
         /\ IsFiniteSet(Starts(text))
         /\ \A i \in 1..Len(text) : i \in Starts(text) <=> text[i] = "lf"
         /\ 0 \in Starts(text)
<1>1. Len(text) \in Nat /\ DOMAIN text = 1..Len(text)
  OBVIOUS
<1>2. Starts(text) \subseteq 0..Len(text)
  BY <1>1 DEF Starts
<1>3. IsFiniteSet(0..Len(text))
  BY <1>1, FS_Interval
<1>4. IsFiniteSet(Starts(text))
  BY <1>2, <1>3, FS_Subset
<1>5. \A i \in 1..Len(text) : i \in Starts(text) <=> text[i] = "lf"
  BY <1>1 DEF Starts
<1>6. 0 \in Starts(text)
  BY DEF Starts
<1>. QED
  BY <1>2, <1>4, <1>5, <1>6

LEMMA EndSpec ==
  ASSUME NEW text \in Seq(Bytes), NEW i \in 0..Len(text)
  PROVE  IsEnd(text, i, EndOf(text, i))
<1>. DEFINE S == {j \in Starts(text) : j > i} \cup {Len(text) + 1}
<1>1. Len(text) \in Nat
  OBVIOUS
<1>2. S \subseteq Nat /\ S # {}
  BY <1>1, StartsAre
<1>3. Min(S) \in S /\ \A y \in S : Min(S) <= y
  BY <1>2, MinIsLeast
<1>4. PICK e : e = Min(S)
  OBVIOUS
<1>. HIDE DEF S
<1>5. e \in S /\ \A y \in S : e <= y
  BY <1>3, <1>4
<1>6. e \in (i + 1)..(Len(text) + 1) /\ (e = Len(text) + 1 \/ text[e] = "lf")
  BY <1>1, <1>5, StartsAre DEF S
<1>7. ASSUME NEW k \in (i + 1)..(e - 1) PROVE text[k] # "lf"
  <2>1. k \in 1..Len(text) /\ k > i /\ k < e
    BY <1>1, <1>6
  <2>2. k \in Starts(text) => k \in S
    BY <2>1 DEF S
  <2>. QED
    BY <1>5, <2>1, <2>2, StartsAre, <1>6
<1>8. IsEnd(text, i, e)
  BY <1>6, <1>7 DEF IsEnd
<1>. QED
  BY <1>4, <1>8 DEF EndOf, S

LEMMA EndIs ==
  ASSUME NEW text \in Seq(Bytes), NEW i \in 0..Len(text), NEW e, IsEnd(text, i, e)
  PROVE  EndOf(text, i) = e
<1>1. PICK f : f = EndOf(text, i)
  OBVIOUS
<1>2. IsEnd(text, i, f)
  BY <1>1, EndSpec
<1>3. e = f
  <2>1. Len(text) \in Nat
    OBVIOUS
  <2>2. e \in (i + 1)..(Len(text) + 1) /\ f \in (i + 1)..(Len(text) + 1)
    BY <1>2 DEF IsEnd
  <2>3. ~(e < f)
    BY <1>2, <2>1, <2>2 DEF IsEnd
  <2>4. ~(f < e)
    BY <1>2, <2>1, <2>2 DEF IsEnd
  <2>. QED
    BY <2>1, <2>2, <2>3, <2>4
<1>. QED
  BY <1>1, <1>3

LEMMA LineSpec ==
  ASSUME NEW text \in Seq(Bytes), NEW i \in 0..Len(text), NEW e, IsEnd(text, i, e)
  PROVE  /\ LineAt(text, i) \in Seq(Bytes)
         /\ Len(LineAt(text, i)) = e - 1 - i
         /\ \A k \in 1..(e - 1 - i) : LineAt(text, i)[k] = text[i + k]
<1>1. LineAt(text, i) = SubSeq(text, i + 1, e - 1)
  BY EndIs DEF LineAt
<1>2. Len(text) \in Nat /\ e \in (i + 1)..(Len(text) + 1)
  BY DEF IsEnd
<1>. QED
  BY <1>1, <1>2

LEMMA SameSeq ==
  ASSUME NEW s \in Seq(Bytes), NEW t \in Seq(Bytes), Len(s) = Len(t),
         \A k \in 1..Len(s) : s[k] = t[k]
  PROVE  s = t
OBVIOUS

LEMMA LineIs ==
  ASSUME NEW text \in Seq(Bytes), NEW i \in 0..Len(text), NEW e, IsEnd(text, i, e),
         NEW line \in Seq(Bytes), Len(line) = e - 1 - i,
         \A k \in 1..Len(line) : line[k] = text[i + k]
  PROVE  LineAt(text, i) = line
<1>1. PICK l : l = LineAt(text, i)
  OBVIOUS
<1>2. l \in Seq(Bytes) /\ Len(l) = Len(line) /\ \A k \in 1..Len(l) : l[k] = line[k]
  BY <1>1, LineSpec
<1>. QED
  BY <1>1, <1>2, SameSeq

LEMMA LaterBytes ==
  ASSUME NEW text \in Seq(Bytes), NEW more \in Seq(Bytes), NEW b \in Starts(text)
  PROVE  /\ {i \in Starts(text \o more) : i < b} = {i \in Starts(text) : i < b}
         /\ b \in Starts(text \o more)
         /\ \A i \in Starts(text) : i < b => LineAt(text \o more, i) = LineAt(text, i)
<1>1. PICK long : long = text \o more
  OBVIOUS
<1>2. /\ long \in Seq(Bytes) /\ Len(text) \in Nat /\ Len(more) \in Nat
      /\ Len(long) = Len(text) + Len(more)
      /\ \A k \in 1..Len(text) : long[k] = text[k]
  BY <1>1
<1>3. b \in 0..Len(text)
  BY StartsAre
<1>4. \A i \in 0..Len(text) : i \in Starts(long) <=> i \in Starts(text)
  <2>1. TAKE i \in 0..Len(text)
  <2>2. CASE i = 0
    BY <1>2, <2>2, StartsAre
  <2>3. CASE i # 0
    <3>1. i \in 1..Len(text) /\ i \in 1..Len(long)
      BY <1>2, <2>3
    <3>. QED
      BY <1>2, <3>1, StartsAre
  <2>. QED
    BY <2>2, <2>3
<1>5. {i \in Starts(long) : i < b} = {i \in Starts(text) : i < b}
  <2>1. Starts(long) \subseteq 0..Len(long) /\ Starts(text) \subseteq 0..Len(text)
    BY <1>2, StartsAre
  <2>2. \A i \in Starts(long) : i < b => i \in 0..Len(text)
    BY <1>2, <1>3, <2>1
  <2>. QED
    BY <1>4, <2>1, <2>2
<1>6. ASSUME NEW i \in Starts(text), i < b PROVE LineAt(long, i) = LineAt(text, i)
  <2>1. i \in 0..Len(text) /\ b \in 1..Len(text) /\ i \in 0..Len(long)
    BY <1>2, <1>3, <1>6, StartsAre
  <2>2. text[b] = "lf"
    BY <2>1, StartsAre
  <2>3. PICK e : e = EndOf(text, i)
    OBVIOUS
  <2>4. IsEnd(text, i, e)
    BY <2>1, <2>3, EndSpec
  <2>5. e <= b
    BY <1>2, <1>6, <2>1, <2>2, <2>4 DEF IsEnd
  <2>6. e \in (i + 1)..Len(text)
    BY <1>2, <2>1, <2>4, <2>5 DEF IsEnd
  <2>7. IsEnd(long, i, e)
    <3>1. e \in (i + 1)..(Len(long) + 1)
      BY <1>2, <2>1, <2>6
    <3>2. long[e] = "lf"
      BY <1>2, <2>1, <2>4, <2>6 DEF IsEnd
    <3>3. ASSUME NEW k \in (i + 1)..(e - 1) PROVE long[k] # "lf"
      <4>1. k \in 1..Len(text)
        BY <1>2, <2>1, <2>6
      <4>2. text[k] # "lf"
        BY <2>4 DEF IsEnd
      <4>. QED
        BY <1>2, <4>1, <4>2
    <3>. QED
      BY <3>1, <3>2, <3>3 DEF IsEnd
  <2>8. PICK l : l = LineAt(text, i)
    OBVIOUS
  <2>9. /\ l \in Seq(Bytes) /\ Len(l) = e - 1 - i
        /\ \A k \in 1..(e - 1 - i) : l[k] = text[i + k]
    BY <2>1, <2>4, <2>8, LineSpec
  <2>10. ASSUME NEW k \in 1..Len(l) PROVE l[k] = long[i + k]
    <3>1. k \in 1..(e - 1 - i) /\ i + k \in 1..Len(text)
      BY <1>2, <2>1, <2>6, <2>9
    <3>. QED
      BY <1>2, <2>9, <3>1
  <2>11. LineAt(long, i) = l
    BY <1>2, <2>1, <2>7, <2>9, <2>10, LineIs
  <2>. QED
    BY <2>8, <2>11
<1>. QED
  BY <1>1, <1>3, <1>4, <1>5, <1>6

-----------------------------------------------------------------------------
(***************************************************************************)
(* What the code finds on a line is what is on it.                         *)
(***************************************************************************)

IsFirstLf(bytes, p) ==
  /\ p \in 1..Len(bytes) /\ bytes[p] = "lf"
  /\ \A k \in 1..(p - 1) : bytes[k] # "lf"

LEMMA FirstLf ==
  ASSUME NEW bytes \in Seq(Bytes), "lf" \in Range(bytes)
  PROVE  IsFirstLf(bytes, SelectInSeq(bytes, LAMBDA b : b = "lf"))
<1>. DEFINE I == {i \in 1..Len(bytes) : bytes[i] = "lf"}
<1>1. Len(bytes) \in Nat /\ DOMAIN bytes = 1..Len(bytes)
  OBVIOUS
<1>2. I \subseteq Nat /\ I # {}
  BY <1>1 DEF Range
<1>3. Min(I) \in I /\ \A y \in I : Min(I) <= y
  BY <1>2, MinIsLeast
<1>4. PICK p : p = Min(I)
  OBVIOUS
<1>5. p \in I /\ \A y \in I : p <= y
  BY <1>3, <1>4
<1>6. IsFirstLf(bytes, p)
  BY <1>1, <1>5 DEF IsFirstLf
<1>7. SelectInSeq(bytes, LAMBDA b : b = "lf") = p
  BY <1>2, <1>4 DEF SelectInSeq
<1>. QED
  BY <1>6, <1>7

\* A line with one byte that is no blank.
OneFull(line) ==
  {i \in DOMAIN line : line[i] \notin {"cr", "space"}}

LEMMA Appended ==
  ASSUME NEW s \in Seq(Bytes), NEW t \in Seq(Bytes)
  PROVE  s \o t \in Seq(Bytes) /\ Len(s \o t) = Len(s) + Len(t)
OBVIOUS

LEMMA RemoveSpec ==
  ASSUME NEW line \in Seq(Bytes), NEW i \in 1..Len(line)
  PROVE  /\ RemoveAt(line, i) \in Seq(Bytes)
         /\ Len(RemoveAt(line, i)) = Len(line) - 1
         /\ \A k \in 1..(Len(line) - 1) :
              RemoveAt(line, i)[k] = IF k < i THEN line[k] ELSE line[k + 1]
<1>1. Len(line) \in Nat
  OBVIOUS
<1>2. PICK head : head = SubSeq(line, 1, i - 1)
  OBVIOUS
<1>3. PICK tail : tail = SubSeq(line, i + 1, Len(line))
  OBVIOUS
<1>4. head \in Seq(Bytes) /\ Len(head) = i - 1 /\ \A k \in 1..(i - 1) : head[k] = line[k]
  BY <1>1, <1>2
<1>5. tail \in Seq(Bytes) /\ Len(tail) = Len(line) - i
  BY <1>1, <1>3
<1>6. \A k \in 1..(Len(line) - i) : tail[k] = line[i + k]
  BY <1>1, <1>3
<1>7. RemoveAt(line, i) = head \o tail
  BY <1>2, <1>3 DEF RemoveAt
<1>8. head \o tail \in Seq(Bytes) /\ Len(head \o tail) = Len(line) - 1
  <2>1. head \o tail \in Seq(Bytes) /\ Len(head \o tail) = (i - 1) + (Len(line) - i)
    BY <1>4, <1>5, Appended
  <2>2. (i - 1) + (Len(line) - i) = Len(line) - 1
    BY <1>1
  <2>. QED
    BY <2>1, <2>2
<1>9. ASSUME NEW k \in 1..(Len(line) - 1)
      PROVE  (head \o tail)[k] = IF k < i THEN line[k] ELSE line[k + 1]
  <2>1. CASE k < i
    BY <1>1, <1>4, <1>5, <2>1
  <2>2. CASE ~(k < i)
    <3>1. k - (i - 1) \in 1..(Len(line) - i) /\ i + (k - (i - 1)) = k + 1
      BY <1>1, <2>2
    <3>2. (head \o tail)[k] = tail[k - (i - 1)]
      BY <1>1, <1>4, <1>5, <2>2
    <3>. QED
      BY <1>6, <2>2, <3>1, <3>2
  <2>. QED
    BY <2>1, <2>2
<1>. QED
  BY <1>7, <1>8, <1>9

LEMMA CarriesIs ==
  ASSUME NEW line \in Seq(Bytes)
  PROVE  (\E i \in DOMAIN line : line[i] = "message" /\ Empty(RemoveAt(line, i)))
            <=> (\E i \in DOMAIN line : line[i] = "message" /\ OneFull(line) = {i})
<1>1. Len(line) \in Nat /\ DOMAIN line = 1..Len(line)
  OBVIOUS
<1>2. SUFFICES ASSUME NEW i \in 1..Len(line), line[i] = "message"
               PROVE  Empty(RemoveAt(line, i)) <=> OneFull(line) = {i}
  BY <1>1
<1>3. PICK rest : rest = RemoveAt(line, i)
  OBVIOUS
<1>4. rest \in Seq(Bytes) /\ Len(rest) = Len(line) - 1 /\ DOMAIN rest = 1..(Len(line) - 1)
  <2>1. rest \in Seq(Bytes) /\ Len(rest) = Len(line) - 1
    BY <1>3, RemoveSpec
  <2>. QED
    BY <2>1
<1>5. \A k \in 1..(Len(line) - 1) : rest[k] = IF k < i THEN line[k] ELSE line[k + 1]
  BY <1>1, <1>3, RemoveSpec
<1>6. ASSUME Empty(rest), NEW j \in 1..Len(line), j # i PROVE line[j] \in {"cr", "space"}
  <2>1. CASE j < i
    <3>1. j \in 1..(Len(line) - 1)
      BY <1>1, <2>1
    <3>. QED
      BY <1>4, <1>5, <1>6, <2>1, <3>1 DEF Empty
  <2>2. CASE j > i
    <3>1. j - 1 \in 1..(Len(line) - 1) /\ ~(j - 1 < i) /\ (j - 1) + 1 = j
      BY <1>1, <2>2
    <3>2. rest[j - 1] = line[j]
      BY <1>5, <3>1
    <3>. QED
      BY <1>4, <1>6, <3>1, <3>2 DEF Empty
  <2>. QED
    BY <1>1, <1>6, <2>1, <2>2
<1>7. ASSUME \A j \in 1..Len(line) : j # i => line[j] \in {"cr", "space"} PROVE Empty(rest)
  <2>1. ASSUME NEW k \in 1..(Len(line) - 1) PROVE rest[k] \in {"cr", "space"}
    <3>1. k \in 1..Len(line) /\ k + 1 \in 1..Len(line)
      BY <1>1
    <3>2. IF k < i THEN k # i ELSE k + 1 # i
      BY <1>1
    <3>. QED
      BY <1>5, <1>7, <3>1, <3>2
  <2>. QED
    BY <1>4, <2>1 DEF Empty
<1>8. OneFull(line) = {i} <=> \A j \in 1..Len(line) : j # i => line[j] \in {"cr", "space"}
  <2>1. i \in OneFull(line)
    BY <1>1, <1>2 DEF OneFull
  <2>2. OneFull(line) = {i} <=> \A j \in OneFull(line) : j = i
    BY <2>1
  <2>3. \A j : j \in OneFull(line) <=> j \in 1..Len(line) /\ line[j] \notin {"cr", "space"}
    BY <1>1 DEF OneFull
  <2>. QED
    BY <2>2, <2>3, Zenon
<1>. QED
  BY <1>3, <1>6, <1>7, <1>8

LEMMA ParsesIs ==
  ASSUME NEW line \in Seq(Bytes)
  PROVE  Parses(line) <=> \E i \in DOMAIN line : line[i] = "message" /\ OneFull(line) = {i}
<1>1. Len(line) \in Nat /\ DOMAIN line = 1..Len(line)
  OBVIOUS
<1>2. OneFull(line) \subseteq 1..Len(line) /\ IsFiniteSet(1..Len(line))
  BY <1>1, FS_Interval DEF OneFull
<1>3. IsFiniteSet(OneFull(line))
  BY <1>2, FS_Subset
<1>4. Cardinality(OneFull(line)) = 1 <=> \E x : OneFull(line) = {x}
  BY <1>3, FS_Singleton
<1>5. Parses(line) <=> (\E x : OneFull(line) = {x}) /\ "message" \in Range(line)
  BY <1>4 DEF Parses, OneFull
<1>6. "message" \in Range(line) <=> \E i \in DOMAIN line : line[i] = "message"
  BY DEF Range
<1>7. \A i \in DOMAIN line : line[i] = "message" => i \in OneFull(line)
  BY DEF OneFull
<1>. QED
  BY <1>5, <1>6, <1>7

LEMMA ShorterByOne ==
  ASSUME NEW line \in Seq(Bytes), Len(line) >= 1
  PROVE  Len(SubSeq(line, 1, Len(line) - 1)) = Len(line) - 1
<1>1. PICK n \in Nat : Len(line) = n + 1
  <2>1. Len(line) - 1 \in Nat /\ Len(line) = (Len(line) - 1) + 1
    OBVIOUS
  <2>. QED
    BY <2>1
<1>2. Len(SubSeq(line, 1, n)) = n
  BY <1>1
<1>3. n = Len(line) - 1
  BY <1>1
<1>. QED
  BY <1>2, <1>3

LEMMA TooLongIs ==
  ASSUME NEW line \in Seq(Bytes), line # <<>>
  PROVE  ~TooLong(line) <=>
           (Len(line) <= MaxMessage \/ (Len(line) = MaxMessage + 1 /\ Last(line) = "cr"))
<1>1. MaxMessage \in Nat /\ Len(line) \in Nat
  BY CodecLimits
<1>2. CASE Last(line) = "cr"
  <2>1. Stripped(line) = SubSeq(line, 1, Len(line) - 1)
    BY <1>2 DEF Stripped, Front
  <2>2. Len(Stripped(line)) = Len(line) - 1
    <3>1. Len(line) >= 1
      BY <1>1
    <3>. QED
      BY <1>1, <2>1, <3>1, ShorterByOne
  <2>. QED
    BY <1>1, <1>2, <2>2 DEF TooLong
<1>3. CASE Last(line) # "cr"
  BY <1>1, <1>3 DEF Stripped, TooLong
<1>. QED
  BY <1>2, <1>3

\* What HandleLine() makes of a line, said of what is on it.
Effect(line) ==
  /\ messages' = messages + (IF Carries(line) THEN 1 ELSE 0)
  /\ decodeErrors' = decodeErrors + (IF ~Empty(line) /\ ~Carries(line) THEN 1 ELSE 0)
  /\ outcome' = (IF "invalid" \in Range(line) THEN "InvalidUtf8" ELSE "reading")
  /\ "invalid" \in Range(line) => ~Empty(line) /\ ~Carries(line)

LEMMA LineEffect ==
  ASSUME NEW line \in Seq(Bytes), HandleLine(line)
  PROVE  Effect(line)
<1>1. Len(line) \in Nat /\ DOMAIN line = 1..Len(line)
  OBVIOUS
<1>2. Blank(line) <=> Empty(line)
  BY DEF Blank, Empty, Range
<1>3. line # <<>> \/ Empty(line)
  BY <1>1 DEF Empty
<1>4. Empty(line) => ~Carries(line)
  BY DEF Empty, Carries
<1>5. ~Empty(line) => (Carries(line) <=> Parses(line) /\ ~TooLong(line))
  <2>1. SUFFICES ASSUME ~Empty(line) PROVE Carries(line) <=> Parses(line) /\ ~TooLong(line)
    OBVIOUS
  <2>2. line # <<>>
    BY <1>3, <2>1
  <2>. QED
    BY <2>2, CarriesIs, ParsesIs, TooLongIs, Zenon DEF Carries
<1>6. "invalid" \in Range(line) => ~Empty(line)
  BY DEF Empty, Range
<1>7. "invalid" \in Range(line) => ~Parses(line)
  <2>1. SUFFICES ASSUME "invalid" \in Range(line), Parses(line) PROVE FALSE
    OBVIOUS
  <2>2. PICK j \in DOMAIN line : line[j] = "invalid"
    BY <2>1 DEF Range
  <2>3. PICK i \in DOMAIN line : line[i] = "message" /\ OneFull(line) = {i}
    BY <2>1, ParsesIs
  <2>4. j \in OneFull(line)
    BY <2>2 DEF OneFull
  <2>. QED
    BY <2>2, <2>3, <2>4
<1>8. Invalid(line) <=> "invalid" \in Range(line)
  BY DEF Invalid
<1>9. Carries(line) <=> ~Blank(line) /\ ~Invalid(line) /\ ~TooLong(line) /\ Parses(line)
  BY <1>2, <1>4, <1>5, <1>7, <1>8, Zenon
<1>10. ~Empty(line) /\ ~Carries(line)
         <=> ~Blank(line) /\ (Invalid(line) \/ TooLong(line) \/ ~Parses(line))
  BY <1>2, <1>5, <1>9, Zenon
<1>11. messages' = messages + (IF Carries(line) THEN 1 ELSE 0)
  BY <1>9 DEF HandleLine
<1>12. decodeErrors' = decodeErrors + (IF ~Empty(line) /\ ~Carries(line) THEN 1 ELSE 0)
  BY <1>10 DEF HandleLine
<1>13. outcome' = (IF "invalid" \in Range(line) THEN "InvalidUtf8" ELSE "reading")
  BY <1>8 DEF HandleLine
<1>. QED
  BY <1>4, <1>6, <1>8, <1>9, <1>11, <1>12, <1>13 DEF Effect
-----------------------------------------------------------------------------
(***************************************************************************)
(* The lines handled and what was counted, as a relation of a text, a      *)
(* place in it and two numbers.                                            *)
(***************************************************************************)

Tally(text, starts, m, d, more) ==
  /\ m = Cardinality({i \in starts : Carries(LineAt(text, i))})
  /\ d = Cardinality({i \in starts : ~Empty(LineAt(text, i)) /\ ~Carries(LineAt(text, i))}) + more

StartsBefore(text, n) == {i \in Starts(text) : i < n}

HandledUpTo(text, n, m, d, more) ==
  /\ \A i \in StartsBefore(text, n) : ~Fatal(LineAt(text, i))
  /\ Tally(text, StartsBefore(text, n), m, d, more)

LEMMA HandledIs ==
  LinesHandled <=> HandledUpTo(printed, Handled, messages, decodeErrors, 0)
BY DEF LinesHandled, HandledUpTo, Before, StartsBefore, Counted, Tally

LEMMA HandledIsNext ==
  LinesHandled' <=> HandledUpTo(printed', Handled', messages', decodeErrors', 0)
BY DEF LinesHandled, HandledUpTo, Before, StartsBefore, Counted, Tally

LEMMA BrokenIsNext ==
  ASSUME NEW f
  PROVE  BrokenAt(f)' <=>
           /\ f \in Starts(printed') /\ (closed' \/ EndOf(printed', f) <= Len(printed'))
           /\ "invalid" \in Range(LineAt(printed', f)) /\ Len(LineAt(printed', f)) < MaxBuffer
           /\ HandledUpTo(printed', f, messages', decodeErrors', 1)
BY DEF BrokenAt, LinesPrinted, HandledUpTo, Before, StartsBefore, Counted, Tally

LEMMA LaterHandled ==
  ASSUME NEW text \in Seq(Bytes), NEW more \in Seq(Bytes), NEW b \in Starts(text),
         NEW m, NEW d, HandledUpTo(text, b, m, d, 0)
  PROVE  HandledUpTo(text \o more, b, m, d, 0)
<1>1. PICK long : long = text \o more
  OBVIOUS
<1>2. PICK S : S = StartsBefore(text, b)
  OBVIOUS
<1>3. StartsBefore(long, b) = S
  BY <1>1, <1>2, LaterBytes DEF StartsBefore
<1>4. \A i \in S : LineAt(long, i) = LineAt(text, i)
  BY <1>1, <1>2, LaterBytes DEF StartsBefore
<1>5. {i \in S : Carries(LineAt(long, i))} = {i \in S : Carries(LineAt(text, i))}
  BY <1>4
<1>6. {i \in S : ~Empty(LineAt(long, i)) /\ ~Carries(LineAt(long, i))}
        = {i \in S : ~Empty(LineAt(text, i)) /\ ~Carries(LineAt(text, i))}
  BY <1>4
<1>7. (\A i \in S : ~Fatal(LineAt(text, i))) /\ Tally(text, S, m, d, 0)
  BY <1>2 DEF HandledUpTo
<1>8. Tally(long, S, m, d, 0)
  BY <1>5, <1>6, <1>7 DEF Tally
<1>9. HandledUpTo(long, b, m, d, 0)
  BY <1>3, <1>4, <1>7, <1>8 DEF HandledUpTo
<1>. QED
  BY <1>1, <1>9

\* After the line at h the next place is n: past its line feed, or the end.
LEMMA OneMoreStart ==
  ASSUME NEW text \in Seq(Bytes), NEW h \in Starts(text), NEW e, IsEnd(text, h, e),
         NEW n \in 0..Len(text), n > h, n = e \/ (n = Len(text) /\ e = n + 1)
  PROVE  /\ StartsBefore(text, n) = StartsBefore(text, h) \cup {h}
         /\ h \notin StartsBefore(text, h)
         /\ IsFiniteSet(StartsBefore(text, h))
<1>1. Len(text) \in Nat /\ h \in 0..Len(text) /\ Starts(text) \subseteq 0..Len(text)
  BY StartsAre
<1>2. ASSUME NEW i \in Starts(text), i < n, h < i PROVE FALSE
  <2>1. i \in (h + 1)..(e - 1) /\ i \in 1..Len(text)
    BY <1>1, <1>2 DEF IsEnd
  <2>2. text[i] # "lf"
    BY <2>1 DEF IsEnd
  <2>. QED
    BY <2>1, <2>2, StartsAre
<1>3. \A i \in Starts(text) : i < n <=> i < h \/ i = h
  BY <1>1, <1>2
<1>4. StartsBefore(text, n) = StartsBefore(text, h) \cup {h}
  BY <1>3 DEF StartsBefore
<1>5. h \notin StartsBefore(text, h)
  BY <1>1 DEF StartsBefore
<1>6. IsFiniteSet(StartsBefore(text, h))
  <2>1. StartsBefore(text, h) \subseteq Starts(text)
    BY DEF StartsBefore
  <2>. QED
    BY <2>1, StartsAre, FS_Subset
<1>. QED
  BY <1>4, <1>5, <1>6

LEMMA OneMoreOf ==
  ASSUME NEW S, IsFiniteSet(S), NEW h, h \notin S, NEW Q
  PROVE  /\ Cardinality((S \cup {h}) \cap Q)
              = Cardinality(S \cap Q) + (IF h \in Q THEN 1 ELSE 0)
         /\ Cardinality(S \cap Q) \in Nat
<1>1. PICK T : T = S \cap Q
  OBVIOUS
<1>2. IsFiniteSet(T) /\ h \notin T
  BY <1>1, FS_Subset
<1>3. PICK c : c = Cardinality(T)
  OBVIOUS
<1>4. c \in Nat
  BY <1>2, <1>3, FS_CardinalityType
<1>5. CASE h \in Q
  <2>1. (S \cup {h}) \cap Q = T \cup {h}
    BY <1>1, <1>5
  <2>2. Cardinality(T \cup {h}) = c + 1
    BY <1>2, <1>3, FS_AddElement
  <2>. QED
    BY <1>1, <1>3, <1>4, <1>5, <2>1, <2>2
<1>6. CASE h \notin Q
  <2>1. (S \cup {h}) \cap Q = T
    BY <1>1, <1>6
  <2>2. c + 0 = c
    BY <1>4
  <2>. QED
    BY <1>1, <1>3, <1>4, <1>6, <2>1, <2>2
<1>. QED
  BY <1>5, <1>6

LEMMA OneMoreLine ==
  ASSUME NEW text, NEW S, IsFiniteSet(S), NEW h, h \notin S,
         NEW m \in Nat, NEW d \in Nat, Tally(text, S, m, d, 0)
  PROVE  Tally(text, S \cup {h},
               m + (IF Carries(LineAt(text, h)) THEN 1 ELSE 0),
               d + (IF ~Empty(LineAt(text, h)) /\ ~Carries(LineAt(text, h)) THEN 1 ELSE 0), 0)
<1>1. PICK full : full = {i \in S \cup {h} : Carries(LineAt(text, i))}
  OBVIOUS
<1>2. PICK bad : bad = {i \in S \cup {h} : ~Empty(LineAt(text, i)) /\ ~Carries(LineAt(text, i))}
  OBVIOUS
<1>3. /\ {i \in S \cup {h} : Carries(LineAt(text, i))} = (S \cup {h}) \cap full
      /\ {i \in S : Carries(LineAt(text, i))} = S \cap full
      /\ h \in full <=> Carries(LineAt(text, h))
  BY <1>1
<1>4. /\ {i \in S \cup {h} : ~Empty(LineAt(text, i)) /\ ~Carries(LineAt(text, i))}
           = (S \cup {h}) \cap bad
      /\ {i \in S : ~Empty(LineAt(text, i)) /\ ~Carries(LineAt(text, i))} = S \cap bad
      /\ h \in bad <=> ~Empty(LineAt(text, h)) /\ ~Carries(LineAt(text, h))
  BY <1>2
<1>5. PICK a : a = Cardinality(S \cap full)
  OBVIOUS
<1>6. PICK b : b = Cardinality(S \cap bad)
  OBVIOUS
<1>7. a \in Nat /\ Cardinality((S \cup {h}) \cap full) = a + (IF h \in full THEN 1 ELSE 0)
  BY <1>5, OneMoreOf
<1>8. b \in Nat /\ Cardinality((S \cup {h}) \cap bad) = b + (IF h \in bad THEN 1 ELSE 0)
  BY <1>6, OneMoreOf
<1>9. m = a
  BY <1>3, <1>5 DEF Tally
<1>10. d = b
  <2>1. d = b + 0
    BY <1>4, <1>6 DEF Tally
  <2>. QED
    BY <1>8, <2>1
<1>11. m + (IF Carries(LineAt(text, h)) THEN 1 ELSE 0)
         = Cardinality({i \in S \cup {h} : Carries(LineAt(text, i))})
  BY <1>3, <1>7, <1>9
<1>12. PICK more : more = IF ~Empty(LineAt(text, h)) /\ ~Carries(LineAt(text, h)) THEN 1 ELSE 0
  OBVIOUS
<1>13. more \in Nat /\ Cardinality((S \cup {h}) \cap bad) = b + more
  BY <1>4, <1>8, <1>12
<1>14. d + more
         = Cardinality({i \in S \cup {h} :
                          ~Empty(LineAt(text, i)) /\ ~Carries(LineAt(text, i))}) + 0
  <2>1. d + more = (b + more) + 0
    BY <1>8, <1>10, <1>13
  <2>. QED
    BY <1>4, <1>13, <2>1
<1>. QED
  BY <1>11, <1>12, <1>14 DEF Tally

\* A line that was read: the next place is handled, or the reading broke here.
LEMMA LineIsHandled ==
  ASSUME CodecTypeOK, LinesHandled, NEW h, h = Handled, h \in Starts(printed),
         NEW e, IsEnd(printed, h, e), e <= Len(printed) \/ closed,
         NEW n \in 0..Len(printed), n > h, n = e \/ (n = Len(printed) /\ e = n + 1),
         NEW line \in Seq(Bytes), line = LineAt(printed, h), Len(line) < MaxBuffer,
         HandleLine(line), printed' = printed, closed' = closed
  PROVE  \/ outcome' = "reading" /\ HandledUpTo(printed', n, messages', decodeErrors', 0)
         \/ outcome' = "InvalidUtf8" /\ (\E f \in Starts(printed) : BrokenAt(f))'
<1>1. Effect(line)
  BY LineEffect
<1>2. PICK text : text = printed
  OBVIOUS
<1>3. PICK m : m = messages
  OBVIOUS
<1>4. PICK d : d = decodeErrors
  OBVIOUS
<1>5. text \in Seq(Bytes) /\ m \in Nat /\ d \in Nat
  BY <1>2, <1>3, <1>4 DEF CodecTypeOK
<1>6. PICK S : S = StartsBefore(text, h)
  OBVIOUS
<1>7. StartsBefore(text, n) = S \cup {h} /\ h \notin S /\ IsFiniteSet(S)
  BY <1>2, <1>5, <1>6, OneMoreStart
<1>8. (\A i \in S : ~Fatal(LineAt(text, i))) /\ Tally(text, S, m, d, 0)
  BY <1>2, <1>3, <1>4, <1>6, HandledIs DEF HandledUpTo
<1>9. CASE "invalid" \notin Range(line)
  <2>1. outcome' = "reading"
    BY <1>1, <1>9 DEF Effect
  <2>2. messages' = m + (IF Carries(line) THEN 1 ELSE 0)
    BY <1>1, <1>3 DEF Effect
  <2>3. decodeErrors' = d + (IF ~Empty(line) /\ ~Carries(line) THEN 1 ELSE 0)
    BY <1>1, <1>4 DEF Effect
  <2>4. Tally(text, S \cup {h}, messages', decodeErrors', 0)
    <3>1. Tally(text, S \cup {h}, m + (IF Carries(line) THEN 1 ELSE 0),
                d + (IF ~Empty(line) /\ ~Carries(line) THEN 1 ELSE 0), 0)
      BY <1>2, <1>5, <1>7, <1>8, OneMoreLine
    <3>. QED
      BY <2>2, <2>3, <3>1
  <2>5. ~Fatal(line)
    <3>1. Len(line) \in Nat /\ MaxBuffer \in Nat
      BY CodecLimits
    <3>. QED
      BY <1>9, <3>1 DEF Fatal
  <2>6. \A i \in S \cup {h} : ~Fatal(LineAt(text, i))
    BY <1>2, <1>8, <2>5
  <2>7. HandledUpTo(text, n, messages', decodeErrors', 0)
    BY <1>7, <2>4, <2>6 DEF HandledUpTo
  <2>. QED
    BY <1>2, <2>1, <2>7
<1>10. CASE "invalid" \in Range(line)
  <2>1. outcome' = "InvalidUtf8"
    BY <1>1, <1>10 DEF Effect
  <2>2. messages' = m /\ decodeErrors' = d + 1
    BY <1>1, <1>3, <1>4, <1>5, <1>10 DEF Effect
  <2>3. IsFiniteSet({i \in S : ~Empty(LineAt(text, i)) /\ ~Carries(LineAt(text, i))})
    BY <1>7, FS_Subset
  <2>4. Cardinality({i \in S : ~Empty(LineAt(text, i)) /\ ~Carries(LineAt(text, i))}) \in Nat
    BY <2>3, FS_CardinalityType
  <2>5. Tally(text, S, messages', decodeErrors', 1)
    BY <1>8, <2>2, <2>4 DEF Tally
  <2>6. HandledUpTo(text, h, messages', decodeErrors', 1)
    BY <1>6, <1>8, <2>5 DEF HandledUpTo
  <2>7. EndOf(text, h) = e /\ (closed' \/ e <= Len(text))
    <3>1. h \in 0..Len(text)
      BY <1>2, <1>5, StartsAre
    <3>. QED
      BY <1>2, <1>5, <3>1, EndIs
  <2>8. BrokenAt(h)'
    BY <1>2, <1>10, <2>6, <2>7, BrokenIsNext
  <2>9. h \in Starts(printed')
    OBVIOUS
  <2>. QED
    BY <2>1, <2>8, <2>9
<1>. QED
  BY <1>9, <1>10
-----------------------------------------------------------------------------
(***************************************************************************)
(* The steps of the codec.                                                 *)
(***************************************************************************)

LEMMA CodecInitially == XInit => CodecIInv
<1>. SUFFICES ASSUME XInit PROVE CodecIInv
  OBVIOUS
<1>1. /\ printed = <<>> /\ buf = <<>> /\ available = <<>> /\ messages = 0 /\ decodeErrors = 0
      /\ closed = FALSE /\ outcome = "reading"
  BY DEF XInit
<1>2. <<>> \in Seq(Bytes) /\ Len(<<>>) = 0
  OBVIOUS
<1>3. CodecTypeOK
  <2>1. closed \in BOOLEAN
    BY <1>1, Zenon
  <2>. QED
    BY <1>1, <1>2, <2>1 DEF CodecTypeOK
<1>4. Handled = 0
  <2>1. Len(printed) = 0 /\ Len(buf) = 0 /\ Len(available) = 0
    BY <1>1, <1>2
  <2>. QED
    BY <2>1 DEF Handled
<1>5. Starts(printed) = {0}
  BY <1>1, <1>2 DEF Starts
<1>6. BufferFits
  BY <1>1, <1>2, <1>4, <1>5, CodecLimits DEF BufferFits
<1>7. StartsBefore(printed, 0) = {}
  BY <1>5 DEF StartsBefore
<1>8. HandledUpTo(printed, 0, 0, 0, 0)
  BY <1>7, FS_EmptySet DEF HandledUpTo, Tally
<1>9. LinesHandled
  BY <1>1, <1>4, <1>8, HandledIs
<1>. QED
  BY <1>1, <1>3, <1>6, <1>9 DEF CodecIInv

LEMMA FillKeeps ==
  ASSUME CodecIInv, NEW n \in 1..(MaxOutput - Len(printed)), NEW bytes \in [1..n -> Bytes],
         Fill(bytes)
  PROVE  CodecIInv'
<1>1. /\ outcome = "reading" /\ available = <<>> /\ closed = FALSE
      /\ printed' = printed \o bytes /\ available' = bytes /\ closed' = closed /\ buf' = buf
      /\ messages' = messages /\ decodeErrors' = decodeErrors /\ outcome' = outcome
  BY DEF Fill, CodecIInv, CodecTypeOK
<1>2. BufferFits /\ LinesHandled /\ CodecTypeOK
  BY <1>1 DEF CodecIInv
<1>3. printed \in Seq(Bytes) /\ Len(printed) \in Nat /\ buf \in Seq(Bytes) /\ Len(buf) \in Nat
  BY <1>2 DEF CodecTypeOK
<1>4. n \in Nat
  BY <1>3, CodecLimits
<1>5. bytes \in Seq(Bytes) /\ Len(bytes) = n
  BY <1>4
<1>6. PICK text : text = printed
  OBVIOUS
<1>7. PICK long : long = printed \o bytes
  OBVIOUS
<1>8. /\ long \in Seq(Bytes) /\ Len(long) = Len(text) + n
      /\ \A i \in 1..Len(text) : long[i] = text[i]
      /\ \A i \in 1..n : long[Len(text) + i] = bytes[i]
  <2>1. long \in Seq(Bytes) /\ Len(long) = Len(text) + n
    BY <1>3, <1>5, <1>6, <1>7, Appended
  <2>2. \A i \in 1..Len(text) : long[i] = text[i]
    BY <1>3, <1>4, <1>5, <1>6, <1>7
  <2>3. ASSUME NEW i \in 1..n PROVE long[Len(text) + i] = bytes[i]
    <3>1. Len(text) + i \in 1..(Len(text) + n) /\ ~(Len(text) + i <= Len(text))
      BY <1>3, <1>4, <1>6
    <3>2. (Len(text) + i) - Len(text) = i
      BY <1>3, <1>4, <1>6
    <3>. QED
      BY <1>3, <1>4, <1>5, <1>6, <1>7, <3>1, <3>2
  <2>. QED
    BY <2>1, <2>2, <2>3
<1>9. CodecTypeOK'
  BY <1>1, <1>2, <1>5, <1>7, <1>8 DEF CodecTypeOK
<1>10. PICK h : h = Handled
  OBVIOUS
<1>11. h = Len(text) - Len(buf) /\ h \in 0..Len(text) /\ h \in Starts(text)
  <2>1. Len(available) = 0
    BY <1>1
  <2>2. h = Len(text) - Len(buf)
    BY <1>3, <1>6, <1>10, <2>1 DEF Handled
  <2>. QED
    BY <1>1, <1>2, <1>6, <1>10, <2>2 DEF BufferFits
<1>12. Handled' = h
  BY <1>1, <1>3, <1>4, <1>5, <1>6, <1>7, <1>8, <1>11 DEF Handled
<1>13. BufferFits'
  <2>1. \A i \in 1..Len(buf) : long[h + i] = buf[i] /\ buf[i] # "lf"
    <3>1. TAKE i \in 1..Len(buf)
    <3>2. h + i \in 1..Len(text)
      BY <1>3, <1>6, <1>11
    <3>3. text[h + i] = buf[i] /\ buf[i] # "lf"
      BY <1>2, <1>6, <1>10 DEF BufferFits
    <3>. QED
      BY <1>8, <3>2, <3>3
  <2>2. \A i \in 1..Len(bytes) : long[h + Len(buf) + i] = bytes[i]
    <3>1. h + Len(buf) = Len(text)
      BY <1>3, <1>6, <1>11
    <3>. QED
      BY <1>5, <1>8, <3>1
  <2>3. h \in Starts(long)
    BY <1>3, <1>5, <1>6, <1>7, <1>11, LaterBytes
  <2>4. h \in 0..Len(long)
    BY <1>3, <1>4, <1>6, <1>8, <1>11
  <2>5. Len(buf) < MaxBuffer
    BY <1>2 DEF BufferFits
  <2>6. printed' = long /\ available' = bytes /\ buf' = buf /\ closed' = FALSE
    BY <1>1, <1>7
  <2>. QED
    BY <1>12, <2>1, <2>2, <2>3, <2>4, <2>5, <2>6 DEF BufferFits
<1>14. LinesHandled'
  <2>1. HandledUpTo(printed, h, messages, decodeErrors, 0)
    BY <1>2, <1>10, HandledIs
  <2>2. HandledUpTo(long, h, messages, decodeErrors, 0)
    <3>1. PICK m : m = messages
      OBVIOUS
    <3>2. PICK d : d = decodeErrors
      OBVIOUS
    <3>. QED
      BY <1>3, <1>5, <1>6, <1>7, <1>11, <2>1, <3>1, <3>2, LaterHandled
  <2>. QED
    BY <1>1, <1>7, <1>12, <2>2, HandledIsNext
<1>. QED
  BY <1>1, <1>9, <1>13, <1>14 DEF CodecIInv

LEMMA CloseKeeps ==
  ASSUME CodecIInv, Close
  PROVE  CodecIInv'
<1>1. /\ outcome = "reading" /\ available = <<>> /\ closed = FALSE /\ closed' = TRUE
      /\ printed' = printed /\ available' = available /\ buf' = buf
      /\ messages' = messages /\ decodeErrors' = decodeErrors /\ outcome' = outcome
  BY DEF Close, CodecIInv, CodecTypeOK
<1>2. BufferFits /\ LinesHandled /\ CodecTypeOK
  BY <1>1 DEF CodecIInv
<1>3. CodecTypeOK'
  <2>1. closed' \in BOOLEAN
    BY <1>1, Zenon
  <2>. QED
    BY <1>1, <1>2, <2>1 DEF CodecTypeOK
<1>4. Handled' = Handled
  BY <1>1 DEF Handled
<1>5. BufferFits'
  BY <1>1, <1>2, <1>4 DEF BufferFits
<1>6. LinesHandled'
  BY <1>1, <1>2, <1>4, HandledIs, HandledIsNext
<1>. QED
  BY <1>1, <1>3, <1>5, <1>6 DEF CodecIInv

\* An overflow is where the line so far would be too long.
LEMMA OverflowKeeps ==
  ASSUME CodecIInv, outcome = "reading", Overflow, LineOverflows
  PROVE  CodecIInv'
<1>1. /\ outcome' = "BufferOverflow" /\ closed' = closed
      /\ printed' = printed /\ available' = available /\ buf' = buf
      /\ messages' = messages /\ decodeErrors' = decodeErrors
  BY DEF Overflow
<1>2. BufferFits /\ LinesHandled /\ CodecTypeOK
  BY DEF CodecIInv
<1>3. CodecTypeOK'
  BY <1>1, <1>2 DEF CodecTypeOK
<1>4. Handled' = Handled
  BY <1>1 DEF Handled
<1>5. BufferFits'
  BY <1>1, <1>2, <1>4 DEF BufferFits
<1>6. LinesHandled'
  BY <1>1, <1>2, <1>4, HandledIs, HandledIsNext
<1>7. LineOverflows'
  BY <1>1 DEF LineOverflows
<1>. QED
  BY <1>1, <1>3, <1>5, <1>6, <1>7 DEF CodecIInv

LEMMA TakePartKeeps ==
  ASSUME CodecIInv, TakePart
  PROVE  CodecIInv'
<1>1. outcome = "reading" /\ available # <<>> /\ "lf" \notin Range(available)
  BY DEF TakePart
<1>2. BufferFits /\ LinesHandled /\ CodecTypeOK
  BY <1>1 DEF CodecIInv
<1>3. /\ printed \in Seq(Bytes) /\ buf \in Seq(Bytes) /\ available \in Seq(Bytes)
      /\ Len(printed) \in Nat /\ Len(buf) \in Nat /\ Len(available) \in Nat
  BY <1>2 DEF CodecTypeOK
<1>4. CASE Overflows(Len(buf) + Len(available)) /\ Overflow
  <2>1. LineOverflows
    BY <1>1, <1>4 DEF LineOverflows, Overflows
  <2>. QED
    BY <1>1, <1>4, <2>1, OverflowKeeps
<1>5. CASE ~Overflows(Len(buf) + Len(available))
  <2>1. /\ buf' = buf \o available /\ available' = <<>>
        /\ UNCHANGED <<printed, closed, messages, decodeErrors, outcome>>
    BY <1>5 DEF TakePart
  <2>2. PICK h : h = Handled
    OBVIOUS
  <2>3. PICK more : more = buf \o available
    OBVIOUS
  <2>4. /\ more \in Seq(Bytes) /\ Len(more) = Len(buf) + Len(available)
        /\ \A i \in 1..Len(buf) : more[i] = buf[i]
        /\ \A i \in 1..Len(available) : more[Len(buf) + i] = available[i]
    BY <1>3, <2>3
  <2>5. CodecTypeOK'
    BY <1>2, <2>1, <2>3, <2>4 DEF CodecTypeOK
  <2>6. h = Len(printed) - Len(buf) - Len(available) /\ h \in 0..Len(printed)
    BY <1>2, <1>3, <2>2 DEF Handled, BufferFits
  <2>7. Handled' = h
    <3>1. Len(available') = 0
      BY <2>1
    <3>2. Handled' = Len(printed) - Len(more) - Len(available')
      BY <2>1, <2>3 DEF Handled
    <3>. QED
      BY <1>3, <2>4, <2>6, <3>1, <3>2
  <2>8. ASSUME NEW i \in 1..Len(more) PROVE printed[h + i] = more[i] /\ more[i] # "lf"
    <3>1. CASE i \in 1..Len(buf)
      BY <1>2, <2>2, <2>4, <3>1 DEF BufferFits
    <3>2. CASE i \notin 1..Len(buf)
      <4>1. PICK k \in 1..Len(available) : i = Len(buf) + k
        <5>1. i - Len(buf) \in 1..Len(available) /\ i = Len(buf) + (i - Len(buf))
          BY <1>3, <2>4, <3>2
        <5>. QED
          BY <5>1
      <4>2. h + i = h + Len(buf) + k
        BY <1>3, <2>6, <4>1
      <4>3. printed[h + Len(buf) + k] = available[k]
        BY <1>2, <2>2 DEF BufferFits
      <4>4. available[k] # "lf"
        BY <1>1, <1>3 DEF Range
      <4>. QED
        BY <2>4, <4>1, <4>2, <4>3, <4>4
    <3>. QED
      BY <3>1, <3>2
  <2>9. Len(more) < MaxBuffer
    BY <1>3, <1>5, <2>4, CodecLimits DEF Overflows
  <2>10. h \in Starts(printed)
    BY <1>1, <1>2, <2>2 DEF BufferFits
  <2>11. BufferFits'
    <3>1. buf' = more /\ printed' = printed /\ available' = <<>> /\ Len(available') = 0
      BY <2>1, <2>3
    <3>. QED
      BY <2>6, <2>7, <2>8, <2>9, <2>10, <3>1 DEF BufferFits
  <2>12. LinesHandled'
    BY <1>2, <2>1, <2>2, <2>7, HandledIs, HandledIsNext
  <2>. QED
    BY <1>1, <2>1, <2>5, <2>11, <2>12 DEF CodecIInv
<1>. QED
  BY <1>4, <1>5 DEF TakePart

LEMMA TakeLineKeeps ==
  ASSUME CodecIInv, TakeLine
  PROVE  CodecIInv'
<1>1. outcome = "reading" /\ "lf" \in Range(available)
  BY DEF TakeLine
<1>2. BufferFits /\ LinesHandled /\ CodecTypeOK
  BY <1>1 DEF CodecIInv
<1>3. /\ printed \in Seq(Bytes) /\ buf \in Seq(Bytes) /\ available \in Seq(Bytes)
      /\ Len(printed) \in Nat /\ Len(buf) \in Nat /\ Len(available) \in Nat
  BY <1>2 DEF CodecTypeOK
<1>4. PICK p : p = SelectInSeq(available, LAMBDA b : b = "lf")
  OBVIOUS
<1>5. IsFirstLf(available, p)
  BY <1>1, <1>3, <1>4, FirstLf
<1>6. p \in 1..Len(available) /\ available[p] = "lf" /\ \A k \in 1..(p - 1) : available[k] # "lf"
  BY <1>5 DEF IsFirstLf
<1>7. \/ Overflows(Len(buf) + (p - 1)) /\ Overflow
      \/ /\ ~Overflows(Len(buf) + (p - 1))
         /\ HandleLine(buf \o SubSeq(available, 1, p - 1))
         /\ buf' = <<>>
         /\ available' = SubSeq(available, (p - 1) + 2, Len(available))
         /\ UNCHANGED <<printed, closed>>
  BY <1>4 DEF TakeLine
<1>8. CASE Overflows(Len(buf) + (p - 1)) /\ Overflow
  <2>1. available # <<>> /\ p \in DOMAIN available
    BY <1>3, <1>6
  <2>2. Len(buf) + p - 1 >= MaxBuffer
    BY <1>3, <1>6, <1>8, CodecLimits DEF Overflows
  <2>3. LineOverflows
    BY <1>6, <2>1, <2>2 DEF LineOverflows
  <2>. QED
    BY <1>1, <1>8, <2>3, OverflowKeeps
<1>9. CASE ~Overflows(Len(buf) + (p - 1))
  <2>1. PICK line : line = buf \o SubSeq(available, 1, p - 1)
    OBVIOUS
  <2>2. PICK rest : rest = SubSeq(available, p + 1, Len(available))
    OBVIOUS
  <2>3. /\ HandleLine(line) /\ buf' = <<>> /\ available' = rest
        /\ printed' = printed /\ closed' = closed
    <3>1. (p - 1) + 2 = p + 1
      BY <1>6
    <3>. QED
      BY <1>7, <1>9, <2>1, <2>2, <3>1
  <2>4. PICK head : head = SubSeq(available, 1, p - 1)
    OBVIOUS
  <2>5. head \in Seq(Bytes) /\ Len(head) = p - 1 /\ \A k \in 1..(p - 1) : head[k] = available[k]
    BY <1>3, <1>6, <2>4
  <2>6. /\ line \in Seq(Bytes) /\ Len(line) = Len(buf) + (p - 1)
        /\ \A k \in 1..Len(buf) : line[k] = buf[k]
        /\ \A k \in 1..(p - 1) : line[Len(buf) + k] = head[k]
    BY <1>3, <1>6, <2>1, <2>4, <2>5
  <2>7. /\ rest \in Seq(Bytes) /\ Len(rest) = Len(available) - p
        /\ \A k \in 1..(Len(available) - p) : rest[k] = available[p + k]
    BY <1>3, <1>6, <2>2
  <2>8. PICK h : h = Handled
    OBVIOUS
  <2>9. h = Len(printed) - Len(buf) - Len(available) /\ h \in 0..Len(printed)
    BY <1>2, <2>8 DEF Handled, BufferFits
  <2>10. PICK e : e = h + Len(buf) + p
    OBVIOUS
  <2>11. e \in (h + 1)..Len(printed) /\ e - 1 - h = Len(line)
    BY <1>3, <1>6, <2>6, <2>9, <2>10
  <2>12. ASSUME NEW k \in 1..Len(line) PROVE line[k] = printed[h + k] /\ line[k] # "lf"
    <3>1. CASE k \in 1..Len(buf)
      BY <1>2, <2>6, <2>8, <3>1 DEF BufferFits
    <3>2. CASE k \notin 1..Len(buf)
      <4>1. PICK j \in 1..(p - 1) : k = Len(buf) + j
        <5>1. k - Len(buf) \in 1..(p - 1) /\ k = Len(buf) + (k - Len(buf))
          BY <1>3, <1>6, <2>6, <3>2
        <5>. QED
          BY <5>1
      <4>2. h + k = h + Len(buf) + j /\ j \in 1..Len(available)
        BY <1>3, <1>6, <2>9, <4>1
      <4>3. printed[h + Len(buf) + j] = available[j]
        BY <1>2, <2>8, <4>2 DEF BufferFits
      <4>. QED
        BY <1>6, <2>5, <2>6, <4>1, <4>2, <4>3
    <3>. QED
      BY <3>1, <3>2
  <2>13. printed[e] = "lf"
    BY <1>2, <1>6, <2>8, <2>10 DEF BufferFits
  <2>14. IsEnd(printed, h, e)
    <3>1. ASSUME NEW k \in (h + 1)..(e - 1) PROVE printed[k] # "lf"
      <4>1. k - h \in 1..Len(line) /\ h + (k - h) = k
        BY <1>3, <2>6, <2>9, <2>11
      <4>2. line[k - h] = printed[h + (k - h)] /\ line[k - h] # "lf"
        BY <2>12, <4>1
      <4>. QED
        BY <4>1, <4>2
    <3>2. e \in (h + 1)..(Len(printed) + 1)
      BY <1>3, <2>9, <2>11
    <3>. QED
      BY <2>13, <3>1, <3>2 DEF IsEnd
  <2>15. LineAt(printed, h) = line
    <3>1. PICK text : text = printed
      OBVIOUS
    <3>2. text \in Seq(Bytes) /\ h \in 0..Len(text) /\ IsEnd(text, h, e)
      BY <1>3, <2>9, <2>14, <3>1
    <3>3. Len(line) = e - 1 - h /\ \A k \in 1..Len(line) : line[k] = text[h + k]
      BY <2>11, <2>12, <3>1
    <3>4. LineAt(text, h) = line
      BY <2>6, <3>2, <3>3, LineIs
    <3>. QED
      BY <3>1, <3>4
  <2>16. h \in Starts(printed)
    <3>1. ~closed
      BY <1>2, <1>3, <1>6 DEF BufferFits
    <3>. QED
      BY <1>2, <2>8, <3>1 DEF BufferFits
  <2>17. Len(line) < MaxBuffer
    BY <1>3, <1>6, <1>9, <2>6, CodecLimits DEF Overflows
  <2>18. \/ outcome' = "reading" /\ HandledUpTo(printed', e, messages', decodeErrors', 0)
         \/ outcome' = "InvalidUtf8" /\ (\E f \in Starts(printed) : BrokenAt(f))'
    <3>1. e \in 0..Len(printed) /\ e > h /\ e <= Len(printed)
      BY <1>3, <2>9, <2>11
    <3>. QED
      BY <1>2, <2>3, <2>6, <2>8, <2>14, <2>15, <2>16, <2>17, <3>1, LineIsHandled
  <2>19. Handled' = e
    <3>1. Len(buf') = 0
      BY <2>3
    <3>2. Handled' = Len(printed) - Len(buf') - Len(rest)
      BY <2>3 DEF Handled
    <3>. QED
      BY <1>3, <1>6, <2>7, <2>9, <2>10, <3>1, <3>2
  <2>20. CodecTypeOK'
    <3>1. messages' \in Nat /\ decodeErrors' \in Nat /\ outcome' \in {"reading", "InvalidUtf8"}
      BY <1>2, <2>3, <2>6, LineEffect DEF Effect, CodecTypeOK
    <3>2. closed' \in BOOLEAN
      BY <1>2, <2>3 DEF CodecTypeOK
    <3>. QED
      BY <1>3, <2>3, <2>7, <3>1, <3>2 DEF CodecTypeOK
  <2>21. BufferFits'
    <3>1. e \in Starts(printed)
      <4>1. e \in 1..Len(printed)
        BY <1>3, <2>9, <2>11
      <4>. QED
        BY <1>3, <2>13, <4>1, StartsAre
    <3>2. ASSUME NEW i \in 1..Len(rest) PROVE printed[e + 0 + i] = rest[i]
      <4>1. p + i \in 1..Len(available) /\ e + 0 + i = h + Len(buf) + (p + i)
        BY <1>3, <1>6, <2>7, <2>9, <2>10
      <4>. QED
        BY <1>2, <2>7, <2>8, <4>1 DEF BufferFits
    <3>3. ~closed
      BY <1>2, <1>3, <1>6 DEF BufferFits
    <3>4. Len(buf') = 0 /\ 0 < MaxBuffer
      BY <2>3, CodecLimits
    <3>5. e \in 0..Len(printed)
      BY <1>3, <2>9, <2>11
    <3>. QED
      BY <2>3, <2>19, <3>1, <3>2, <3>3, <3>4, <3>5 DEF BufferFits
  <2>22. outcome' = "reading" => LinesHandled'
    BY <2>18, <2>19, HandledIsNext
  <2>. QED
    BY <2>18, <2>20, <2>21, <2>22 DEF CodecIInv
<1>. QED
  BY <1>7, <1>8, <1>9

LEMMA EofKeeps ==
  ASSUME CodecIInv, Eof
  PROVE  CodecIInv'
<1>1. outcome = "reading" /\ available = <<>> /\ closed /\ UNCHANGED <<printed, closed, available>>
  BY DEF Eof
<1>2. BufferFits /\ LinesHandled /\ CodecTypeOK
  BY <1>1 DEF CodecIInv
<1>3. /\ printed \in Seq(Bytes) /\ buf \in Seq(Bytes)
      /\ Len(printed) \in Nat /\ Len(buf) \in Nat /\ Len(available) = 0
  BY <1>1, <1>2 DEF CodecTypeOK
<1>4. PICK h : h = Handled
  OBVIOUS
<1>5. h = Len(printed) - Len(buf) /\ h \in 0..Len(printed)
  BY <1>2, <1>3, <1>4 DEF Handled, BufferFits
<1>6. CASE buf = <<>> /\ outcome' = "eof"
  <2>1. buf' = buf /\ messages' = messages /\ decodeErrors' = decodeErrors
    BY <1>6 DEF Eof
  <2>2. CodecTypeOK'
    BY <1>1, <1>2, <1>6, <2>1 DEF CodecTypeOK
  <2>3. Handled' = Handled
    BY <1>1, <2>1 DEF Handled
  <2>4. BufferFits'
    BY <1>1, <1>2, <2>1, <2>3 DEF BufferFits
  <2>5. LinesHandled'
    BY <1>1, <1>2, <2>1, <2>3, HandledIs, HandledIsNext
  <2>. QED
    BY <1>1, <1>6, <2>1, <2>2, <2>4, <2>5 DEF CodecIInv
<1>7. CASE buf # <<>>
  <2>1. HandleLine(buf) /\ buf' = <<>> /\ printed' = printed /\ closed' = closed /\ available' = available
    BY <1>1, <1>7 DEF Eof
  <2>2. Len(buf) > 0
    BY <1>3, <1>7
  <2>3. PICK e : e = Len(printed) + 1
    OBVIOUS
  <2>4. \A k \in 1..Len(buf) : printed[h + k] = buf[k] /\ buf[k] # "lf"
    BY <1>2, <1>4 DEF BufferFits
  <2>5. IsEnd(printed, h, e)
    <3>1. ASSUME NEW k \in (h + 1)..(e - 1) PROVE printed[k] # "lf"
      <4>1. k - h \in 1..Len(buf) /\ h + (k - h) = k
        BY <1>3, <1>5, <2>3
      <4>2. buf[k - h] = printed[h + (k - h)] /\ buf[k - h] # "lf"
        BY <2>4, <4>1
      <4>. QED
        BY <4>1, <4>2
    <3>2. e \in (h + 1)..(Len(printed) + 1)
      BY <1>3, <1>5, <2>3
    <3>. QED
      BY <2>3, <3>1, <3>2 DEF IsEnd
  <2>6. LineAt(printed, h) = buf
    <3>1. PICK line : line = buf
      OBVIOUS
    <3>2. PICK text : text = printed
      OBVIOUS
    <3>3. Len(line) = e - 1 - h /\ \A k \in 1..Len(line) : line[k] = text[h + k]
      BY <1>3, <1>5, <2>3, <2>4, <3>1, <3>2
    <3>4. line \in Seq(Bytes) /\ text \in Seq(Bytes) /\ h \in 0..Len(text) /\ IsEnd(text, h, e)
      BY <1>3, <1>5, <2>5, <3>1, <3>2
    <3>5. LineAt(text, h) = line
      BY <3>3, <3>4, LineIs
    <3>. QED
      BY <3>1, <3>2, <3>5
  <2>7. h \in Starts(printed) /\ Len(buf) < MaxBuffer
    BY <1>2, <1>4, <1>7 DEF BufferFits
  <2>8. PICK n : n = Len(printed)
    OBVIOUS
  <2>9. n \in 0..Len(printed) /\ n > h /\ e = n + 1
    BY <1>3, <1>5, <2>2, <2>3, <2>8
  <2>10. \/ outcome' = "reading" /\ HandledUpTo(printed', n, messages', decodeErrors', 0)
         \/ outcome' = "InvalidUtf8" /\ (\E f \in Starts(printed) : BrokenAt(f))'
    <3>1. PICK line : line = buf
      OBVIOUS
    <3>. QED
      BY <1>1, <1>2, <1>3, <1>4, <2>1, <2>5, <2>6, <2>7, <2>8, <2>9, <3>1, LineIsHandled
  <2>11. Handled' = n
    <3>1. Len(buf') = 0
      BY <2>1
    <3>2. Handled' = Len(printed) - Len(buf') - Len(available)
      BY <2>1 DEF Handled
    <3>. QED
      BY <1>3, <2>8, <3>1, <3>2
  <2>12. CodecTypeOK'
    <3>1. messages' \in Nat /\ decodeErrors' \in Nat /\ outcome' \in {"reading", "InvalidUtf8"}
      BY <1>2, <1>3, <2>1, LineEffect DEF Effect, CodecTypeOK
    <3>2. closed' \in BOOLEAN
      BY <1>2, <2>1 DEF CodecTypeOK
    <3>3. available' \in Seq(Bytes) /\ printed' \in Seq(Bytes)
      BY <1>2, <2>1 DEF CodecTypeOK
    <3>. QED
      BY <2>1, <3>1, <3>2, <3>3 DEF CodecTypeOK
  <2>13. BufferFits'
    <3>1. Len(buf') = 0 /\ 0 < MaxBuffer /\ Len(available') = 0
      BY <1>3, <2>1, CodecLimits
    <3>2. closed' /\ buf' = <<>> /\ available' = <<>> /\ printed' = printed
      BY <1>1, <2>1
    <3>. QED
      BY <2>9, <2>11, <3>1, <3>2 DEF BufferFits
  <2>14. outcome' = "reading" => LinesHandled'
    BY <2>10, <2>11, HandledIsNext
  <2>. QED
    BY <2>10, <2>12, <2>13, <2>14 DEF CodecIInv
<1>. QED
  BY <1>6, <1>7 DEF Eof

\* However the pipe cuts what the child prints, the lines before the place the
\* codec has reached are handled, and none of them is fatal.
THEOREM CodecInvariant == XSpec => []CodecIInv
<1>1. XInit => CodecIInv
  BY CodecInitially
<1>2. CodecIInv /\ [XNext]_xvars => CodecIInv'
  <2>1. SUFFICES ASSUME CodecIInv, [XNext]_xvars PROVE CodecIInv'
    OBVIOUS
  <2>2. ASSUME NEW n \in 1..(MaxOutput - Len(printed)), NEW bytes \in [1..n -> Bytes], Fill(bytes)
        PROVE  CodecIInv'
    BY <2>1, <2>2, FillKeeps
  <2>3. CASE UNCHANGED xvars
    <3>1. /\ printed' = printed /\ closed' = closed /\ available' = available /\ buf' = buf
          /\ messages' = messages /\ decodeErrors' = decodeErrors /\ outcome' = outcome
      BY <2>3 DEF xvars
    <3>2. CodecTypeOK' <=> CodecTypeOK
      BY <3>1 DEF CodecTypeOK
    <3>3. Handled' = Handled
      BY <3>1 DEF Handled
    <3>4. BufferFits' <=> BufferFits
      BY <3>1, <3>3 DEF BufferFits
    <3>5. LinesHandled' <=> LinesHandled
      BY <3>1, <3>3, HandledIs, HandledIsNext
    <3>6. LineOverflows' <=> LineOverflows
      BY <3>1 DEF LineOverflows
    <3>7. ASSUME NEW f PROVE BrokenAt(f)' <=> BrokenAt(f)
      BY <3>1 DEF BrokenAt, LinesPrinted, Before, Counted
    <3>. QED
      BY <2>1, <3>1, <3>2, <3>4, <3>5, <3>6, <3>7 DEF CodecIInv
  <2>. QED
    BY <2>1, <2>2, <2>3, CloseKeeps, TakeLineKeeps, TakePartKeeps, EofKeeps DEF XNext
<1>. QED
  BY <1>1, <1>2, PTL DEF XSpec
-----------------------------------------------------------------------------
(***************************************************************************)
(* What the invariant says of a reader's result.                           *)
(***************************************************************************)

FatalLines == {i \in LinesPrinted : Fatal(LineAt(printed, i))}
ReadLines == {i \in LinesPrinted : \A j \in FatalLines : i < j}

LEMMA EndsBefore ==
  ASSUME NEW text \in Seq(Bytes), NEW h \in Starts(text), NEW i \in Starts(text), i < h
  PROVE  EndOf(text, i) <= Len(text)
<1>1. Len(text) \in Nat /\ i \in 0..Len(text) /\ h \in 0..Len(text)
  BY StartsAre
<1>2. PICK e : e = EndOf(text, i)
  OBVIOUS
<1>3. IsEnd(text, i, e)
  BY <1>1, <1>2, EndSpec
<1>4. h \in 1..Len(text) /\ text[h] = "lf"
  <2>1. h \in 1..Len(text)
    BY <1>1
  <2>. QED
    BY <2>1, StartsAre
<1>5. e <= h
  BY <1>1, <1>3, <1>4 DEF IsEnd
<1>. QED
  BY <1>1, <1>2, <1>3, <1>5 DEF IsEnd

LEMMA FirstFatal ==
  ASSUME CodecTypeOK, NEW f, f \in FatalLines, \A i \in Before(f) : ~Fatal(LineAt(printed, i))
  PROVE  Min(FatalLines) = f /\ ReadLines = Before(f)
<1>1. PICK text : text = printed
  OBVIOUS
<1>2. text \in Seq(Bytes) /\ Len(text) \in Nat
  BY <1>1 DEF CodecTypeOK
<1>3. f \in Starts(text) /\ Starts(text) \subseteq 0..Len(text)
  BY <1>1, <1>2, StartsAre DEF FatalLines, LinesPrinted
<1>4. FatalLines \subseteq Starts(text)
  BY <1>1 DEF FatalLines, LinesPrinted
<1>5. ASSUME NEW j \in FatalLines PROVE f <= j
  <2>1. j \in Starts(text) /\ Fatal(LineAt(text, j))
    BY <1>1 DEF FatalLines, LinesPrinted
  <2>2. ~(j < f)
    BY <1>1, <2>1 DEF Before
  <2>. QED
    BY <1>2, <1>3, <2>1, <2>2
<1>6. Min(FatalLines) = f
  <2>1. FatalLines \subseteq Nat
    BY <1>3, <1>4
  <2>2. PICK x : x = Min(FatalLines)
    OBVIOUS
  <2>3. x \in FatalLines /\ x <= f
    BY <2>1, <2>2, MinIsLeast
  <2>4. f <= x /\ x \in Nat /\ f \in Nat
    BY <1>5, <2>1, <2>3
  <2>. QED
    BY <2>2, <2>3, <2>4
<1>7. ASSUME NEW i \in Starts(text), i < f PROVE i \in LinesPrinted
  BY <1>1, <1>2, <1>3, <1>7, EndsBefore DEF LinesPrinted
<1>8. \A i \in ReadLines : i \in LinesPrinted /\ i < f
  BY DEF ReadLines
<1>9. \A i \in LinesPrinted : i < f => i \in ReadLines
  <2>1. \A i \in LinesPrinted : i \in 0..Len(text)
    BY <1>1, <1>3 DEF LinesPrinted
  <2>2. \A j \in FatalLines : j \in 0..Len(text)
    BY <1>3, <1>4
  <2>. QED
    BY <1>2, <1>3, <1>5, <2>1, <2>2 DEF ReadLines
<1>10. \A i \in LinesPrinted : i \in Starts(text)
  BY <1>1 DEF LinesPrinted
<1>11. ReadLines = Before(f)
  BY <1>1, <1>7, <1>8, <1>9, <1>10 DEF Before
<1>. QED
  BY <1>6, <1>11

LEMMA NoneFatal ==
  FatalLines = {} => ReadLines = LinesPrinted
BY DEF ReadLines

\* Between reads, and at the end: the lines printed are those before the place
\* reached, and at most an empty one.
LEMMA QuietIsExact ==
  ASSUME CodecTypeOK, BufferFits, LinesHandled, available = <<>>, closed => buf = <<>>
  PROVE  FatalLines = {} /\ Counted(ReadLines, 0)
<1>1. PICK text : text = printed
  OBVIOUS
<1>2. text \in Seq(Bytes) /\ Len(text) \in Nat /\ Len(buf) \in Nat /\ Len(available) = 0
  BY <1>1 DEF CodecTypeOK
<1>3. Starts(text) \subseteq 0..Len(text)
  BY <1>2, StartsAre
<1>4. PICK h : h = Handled
  OBVIOUS
<1>5. h \in 0..Len(text) /\ h = Len(text) - Len(buf)
  BY <1>1, <1>2, <1>4 DEF BufferFits, Handled
<1>6. ASSUME NEW i \in Starts(text), h < i PROVE FALSE
  <2>1. i \in 1..Len(text) /\ i - h \in 1..Len(buf) /\ h + (i - h) = i
    BY <1>2, <1>3, <1>5, <1>6
  <2>2. text[i] # "lf"
    <3>1. \A k \in 1..Len(buf) : text[h + k] = buf[k] /\ buf[k] # "lf"
      BY <1>1, <1>4 DEF BufferFits
    <3>. QED
      BY <2>1, <3>1
  <2>. QED
    BY <1>2, <2>1, <2>2, StartsAre
<1>7. \A i \in Starts(text) : i < h \/ i = h
  BY <1>2, <1>3, <1>5, <1>6
<1>8. ASSUME NEW i \in Before(h) PROVE i \in LinesPrinted
  <2>1. i \in Starts(text) /\ i < h
    BY <1>1 DEF Before
  <2>2. CASE h \in Starts(text)
    BY <1>1, <1>2, <2>1, <2>2, EndsBefore DEF LinesPrinted
  <2>3. CASE h \notin Starts(text)
    BY <1>1, <1>4, <2>1, <2>3 DEF LinesPrinted, BufferFits
  <2>. QED
    BY <2>2, <2>3
<1>9. ASSUME h \in LinesPrinted PROVE LineAt(text, h) = <<>>
  <2>1. IsEnd(text, h, Len(text) + 1)
    <3>1. ASSUME NEW k \in (h + 1)..Len(text) PROVE text[k] # "lf"
      <4>1. k \in 1..Len(text) /\ h < k
        BY <1>2, <1>5
      <4>. QED
        BY <1>2, <1>6, <4>1, StartsAre
    <3>2. Len(text) + 1 \in (h + 1)..(Len(text) + 1) /\ (Len(text) + 1) - 1 = Len(text)
      BY <1>2, <1>5
    <3>. QED
      BY <3>1, <3>2 DEF IsEnd
  <2>2. EndOf(text, h) = Len(text) + 1
    BY <1>2, <1>5, <2>1, EndIs
  <2>3. closed
    BY <1>1, <1>2, <1>9, <2>2 DEF LinesPrinted
  <2>4. h = Len(text)
    BY <1>2, <1>5, <2>3
  <2>5. Len(LineAt(text, h)) = 0 /\ LineAt(text, h) \in Seq(Bytes)
    BY <1>2, <1>5, <2>1, <2>4, LineSpec
  <2>. QED
    BY <2>5
<1>10. ~Fatal(<<>>) /\ Empty(<<>>) /\ ~Carries(<<>>)
  <2>1. Len(<<>>) = 0 /\ DOMAIN <<>> = {}
    OBVIOUS
  <2>. QED
    BY <2>1, CodecLimits DEF Fatal, Empty, Carries, Range
<1>11. \A i \in LinesPrinted : i \in Before(h) \/ (i = h /\ LineAt(text, h) = <<>>)
  BY <1>1, <1>7, <1>9 DEF LinesPrinted, Before
<1>12. \A i \in Before(h) : ~Fatal(LineAt(text, i))
  BY <1>1, <1>4 DEF LinesHandled
<1>13. FatalLines = {}
  BY <1>1, <1>10, <1>11, <1>12 DEF FatalLines
<1>14. {i \in LinesPrinted : Carries(LineAt(text, i))} = {i \in Before(h) : Carries(LineAt(text, i))}
  BY <1>8, <1>10, <1>11
<1>15. {i \in LinesPrinted : ~Empty(LineAt(text, i)) /\ ~Carries(LineAt(text, i))}
         = {i \in Before(h) : ~Empty(LineAt(text, i)) /\ ~Carries(LineAt(text, i))}
  BY <1>8, <1>10, <1>11
<1>16. Counted(Before(h), 0)
  BY <1>4 DEF LinesHandled
<1>17. Counted(LinesPrinted, 0)
  BY <1>1, <1>14, <1>15, <1>16 DEF Counted
<1>. QED
  BY <1>13, <1>17, NoneFatal

LEMMA BrokenIsExact ==
  ASSUME CodecTypeOK, NEW f \in Starts(printed), BrokenAt(f)
  PROVE  /\ FatalLines # {} /\ Len(LineAt(printed, Min(FatalLines))) < MaxBuffer
         /\ Counted(ReadLines, 1)
<1>1. f \in FatalLines
  BY DEF BrokenAt, FatalLines, Fatal
<1>2. \A i \in Before(f) : ~Fatal(LineAt(printed, i))
  BY DEF BrokenAt
<1>3. Min(FatalLines) = f /\ ReadLines = Before(f)
  BY <1>1, <1>2, FirstFatal
<1>. QED
  BY <1>1, <1>3 DEF BrokenAt

LEMMA OverflowIsExact ==
  ASSUME CodecTypeOK, BufferFits, LinesHandled, LineOverflows
  PROVE  /\ Counted(ReadLines, 0)
         /\ FatalLines = {} => ~closed
         /\ FatalLines # {} => Len(LineAt(printed, Min(FatalLines))) >= MaxBuffer
<1>1. PICK text : text = printed
  OBVIOUS
<1>2. /\ text \in Seq(Bytes) /\ Len(text) \in Nat /\ Len(buf) \in Nat
      /\ available \in Seq(Bytes) /\ Len(available) \in Nat
  BY <1>1 DEF CodecTypeOK
<1>3. Starts(text) \subseteq 0..Len(text)
  BY <1>2, StartsAre
<1>4. PICK h : h = Handled
  OBVIOUS
<1>5. ~closed /\ h \in Starts(text)
  BY <1>1, <1>4 DEF LineOverflows, BufferFits
<1>6. h \in 0..Len(text) /\ Len(text) = h + Len(buf) + Len(available)
  BY <1>1, <1>2, <1>4 DEF BufferFits, Handled
<1>7. /\ \A k \in 1..Len(buf) : text[h + k] # "lf"
      /\ \A k \in 1..Len(available) : text[h + Len(buf) + k] = available[k]
  BY <1>1, <1>4 DEF BufferFits
<1>8. Counted(Before(h), 0) /\ \A i \in Before(h) : ~Fatal(LineAt(text, i))
  BY <1>1, <1>4 DEF LinesHandled
<1>9. CASE "lf" \notin Range(available)
  <2>1. ASSUME NEW k \in (h + 1)..Len(text) PROVE text[k] # "lf"
    <3>1. CASE k <= h + Len(buf)
      <4>1. k - h \in 1..Len(buf) /\ h + (k - h) = k
        BY <1>2, <1>6, <3>1
      <4>. QED
        BY <1>7, <4>1
    <3>2. CASE ~(k <= h + Len(buf))
      <4>1. /\ k - (h + Len(buf)) \in 1..Len(available)
            /\ h + Len(buf) + (k - (h + Len(buf))) = k
        BY <1>2, <1>6, <3>2
      <4>2. \A j \in 1..Len(available) : available[j] # "lf"
        BY <1>2, <1>9 DEF Range
      <4>3. text[k] = available[k - (h + Len(buf))]
        BY <1>7, <4>1
      <4>. QED
        BY <4>1, <4>2, <4>3
    <3>. QED
      BY <3>1, <3>2
  <2>2. IsEnd(text, h, Len(text) + 1)
    <3>1. Len(text) + 1 \in (h + 1)..(Len(text) + 1) /\ (Len(text) + 1) - 1 = Len(text)
      BY <1>2, <1>6
    <3>. QED
      BY <2>1, <3>1 DEF IsEnd
  <2>3. EndOf(text, h) = Len(text) + 1
    BY <1>2, <1>6, <2>2, EndIs
  <2>4. h \notin LinesPrinted
    BY <1>1, <1>2, <1>5, <2>3 DEF LinesPrinted
  <2>5. ASSUME NEW i \in Starts(text), h < i PROVE FALSE
    <3>1. i \in (h + 1)..Len(text) /\ i \in 1..Len(text)
      BY <1>2, <1>3, <1>6, <2>5
    <3>. QED
      BY <1>2, <2>1, <3>1, StartsAre
  <2>6. \A i \in Starts(text) : i < h => i \in LinesPrinted
    BY <1>1, <1>2, <1>5, EndsBefore DEF LinesPrinted
  <2>7. \A i \in LinesPrinted : i \in Starts(text) /\ i < h
    <3>1. \A i \in Starts(text) : i < h \/ i = h
      BY <1>2, <1>3, <1>6, <2>5
    <3>. QED
      BY <1>1, <2>4, <3>1 DEF LinesPrinted
  <2>8. LinesPrinted = Before(h)
    BY <1>1, <2>6, <2>7 DEF Before
  <2>9. FatalLines = {}
    BY <1>1, <1>8, <2>8 DEF FatalLines
  <2>. QED
    BY <1>5, <1>8, <2>8, <2>9, NoneFatal
<1>10. CASE "lf" \in Range(available)
  <2>1. PICK p \in 1..Len(available) :
          /\ available[p] = "lf" /\ \A k \in 1..(p - 1) : available[k] # "lf"
          /\ Len(buf) + p - 1 >= MaxBuffer
    BY <1>2, <1>10 DEF LineOverflows
  <2>2. PICK e : e = h + Len(buf) + p
    OBVIOUS
  <2>3. e \in (h + 1)..Len(text) /\ text[e] = "lf"
    <3>1. e \in (h + 1)..Len(text)
      BY <1>2, <1>6, <2>2
    <3>. QED
      BY <1>7, <2>1, <2>2, <3>1
  <2>4. ASSUME NEW k \in (h + 1)..(e - 1) PROVE text[k] # "lf"
    <3>1. CASE k <= h + Len(buf)
      <4>1. k - h \in 1..Len(buf) /\ h + (k - h) = k
        BY <1>2, <1>6, <2>2, <3>1
      <4>. QED
        BY <1>7, <4>1
    <3>2. CASE ~(k <= h + Len(buf))
      <4>1. /\ k - (h + Len(buf)) \in 1..(p - 1)
            /\ k - (h + Len(buf)) \in 1..Len(available)
            /\ h + Len(buf) + (k - (h + Len(buf))) = k
        BY <1>2, <1>6, <2>2, <3>2
      <4>2. text[k] = available[k - (h + Len(buf))]
        BY <1>7, <4>1
      <4>. QED
        BY <2>1, <4>1, <4>2
    <3>. QED
      BY <3>1, <3>2
  <2>5. IsEnd(text, h, e)
    <3>1. e \in (h + 1)..(Len(text) + 1)
      BY <1>2, <1>6, <2>3
    <3>. QED
      BY <2>3, <2>4, <3>1 DEF IsEnd
  <2>6. EndOf(text, h) = e
    BY <1>2, <1>6, <2>5, EndIs
  <2>7. h \in LinesPrinted
    BY <1>1, <1>2, <1>5, <1>6, <2>3, <2>6 DEF LinesPrinted
  <2>8. Len(LineAt(text, h)) >= MaxBuffer
    <3>1. Len(LineAt(text, h)) = e - 1 - h
      BY <1>2, <1>6, <2>5, LineSpec
    <3>. QED
      BY <1>2, <1>6, <2>1, <2>2, <3>1, CodecLimits
  <2>9. h \in FatalLines
    BY <1>1, <2>7, <2>8 DEF FatalLines, Fatal
  <2>10. Min(FatalLines) = h /\ ReadLines = Before(h)
    BY <1>1, <1>8, <2>9, FirstFatal
  <2>. QED
    BY <1>1, <1>5, <1>8, <2>8, <2>9, <2>10
<1>. QED
  BY <1>9, <1>10

\* Whatever the child prints and however it arrives, the messages and the
\* errors counted are those of the lines before the first fatal one.
THEOREM CodecCorrect == XSpec => []CodecIsExact
<1>1. CodecIInv => CodecIsExact
  <2>1. SUFFICES ASSUME CodecIInv PROVE CodecIsExact
    OBVIOUS
  <2>2. CodecTypeOK
    BY <2>1 DEF CodecIInv
  <2>3. outcome = "reading" /\ available = <<>> /\ (closed => buf = <<>>) =>
          FatalLines = {} /\ Counted(ReadLines, 0)
    BY <2>1, <2>2, QuietIsExact DEF CodecIInv
  <2>4. outcome = "eof" => closed /\ FatalLines = {} /\ Counted(ReadLines, 0)
    BY <2>1, <2>2, QuietIsExact DEF CodecIInv, BufferFits
  <2>5. outcome = "InvalidUtf8" =>
          /\ FatalLines # {} /\ Len(LineAt(printed, Min(FatalLines))) < MaxBuffer
          /\ Counted(ReadLines, 1)
    BY <2>1, <2>2, BrokenIsExact DEF CodecIInv
  <2>6. outcome = "BufferOverflow" =>
          /\ Counted(ReadLines, 0)
          /\ FatalLines = {} => ~closed
          /\ FatalLines # {} => Len(LineAt(printed, Min(FatalLines))) >= MaxBuffer
    BY <2>1, <2>2, OverflowIsExact DEF CodecIInv
  <2>. QED
    BY <2>3, <2>4, <2>5, <2>6, Zenon DEF CodecIsExact, FatalLines, ReadLines
<1>. QED
  BY <1>1, CodecInvariant, PTL

-----------------------------------------------------------------------------
(***************************************************************************)
(* The bridge.                                                             *)
(***************************************************************************)

USE CapsPositive, FaultsKnown, UnlockedIsNobody

LEMMA BridgeInitially == Init => BridgeIInv
<1>. SUFFICES ASSUME Init PROVE BridgeIInv
  OBVIOUS
<1>. USE DEF Init
<1>1. chan \in Seq({"msg", "fatal"}) /\ Len(chan) <= ChanCap /\ pipe \in 0..PipeCap
  OBVIOUS
<1>2. /\ writer \in [Writers -> {"idle", "lock", "writing", "sent", "failed"}]
      /\ killer \in [Killers -> {"idle", "close", "term", "poll", "done"}]
  OBVIOUS
<1>3. ignoresTerm \in BOOLEAN /\ stdinOpen \in BOOLEAN /\ dead \in BOOLEAN
  BY Zenon
<1>4. TypeOK
  BY <1>1, <1>2, <1>3 DEF TypeOK
<1>. QED
  BY <1>4 DEF BridgeIInv, StdinKept, WaiterKnows, EarlyEnds, DeadIsTrue

\* The steps of the child.
LEMMA ChildKeeps ==
  ASSUME BridgeIInv,
         \/ ChildReads \/ ChildExits \/ ChildObeys \/ ChildCloses("out")
         \/ "deafen" \in prone /\ ChildCloses("in")
         \/ ReapZombie
  PROVE  BridgeIInv'
<1>. USE DEF BridgeIInv, TypeOK, childVars, stdinVars, exitVars, threadVars, callerVars
<1>1. CASE ChildReads
  BY <1>1 DEF ChildReads, StdinKept, WaiterKnows, EarlyEnds, DeadIsTrue, GivenUp, Wholesome
<1>2. CASE ChildExits \/ ChildObeys
  <2>1. PICK why \in {"code", "signal"} : ChildEnds(why)
    BY <1>2 DEF ChildExits, ChildObeys
  <2>. QED
    BY <2>1 DEF ChildEnds, StdinKept, WaiterKnows, EarlyEnds, DeadIsTrue, GivenUp, Wholesome
<1>3. CASE ChildCloses("out")
  BY <1>3 DEF ChildCloses, StdinKept, WaiterKnows, EarlyEnds, DeadIsTrue, GivenUp, Wholesome
<1>4. CASE "deafen" \in prone /\ ChildCloses("in")
  BY <1>4 DEF ChildCloses, StdinKept, WaiterKnows, EarlyEnds, DeadIsTrue, GivenUp, Wholesome
<1>5. CASE ReapZombie
  BY <1>5 DEF ReapZombie, StdinKept, WaiterKnows, EarlyEnds, DeadIsTrue, GivenUp, Wholesome
<1>. QED
  BY <1>1, <1>2, <1>3, <1>4, <1>5

\* The steps of write_message().
LEMMA WriterKeeps ==
  ASSUME BridgeIInv, NEW w \in Writers, WriteCheck(w) \/ Write(w)
  PROVE  BridgeIInv'
<1>. USE DEF BridgeIInv, TypeOK, childVars, stdinVars, exitVars, threadVars, callerVars
<1>1. CASE WriteCheck(w)
  BY <1>1 DEF WriteCheck, StdinKept, WaiterKnows, EarlyEnds, DeadIsTrue, GivenUp, Wholesome
<1>2. CASE WriteLock(w)
  BY <1>2 DEF WriteLock, StdinKept, WaiterKnows, EarlyEnds, DeadIsTrue, GivenUp, Wholesome
<1>3. CASE WriteBytes(w)
  <2>1. CASE "in" \in fds
    BY <1>3, <2>1 DEF WriteBytes, StdinKept, WaiterKnows, EarlyEnds, DeadIsTrue, GivenUp,
                      Wholesome
  <2>2. CASE "in" \notin fds
    <3>1. dead' = TRUE /\ stdinOpen' = FALSE /\ stdinLock' = Unlocked
          /\ writer' = [writer EXCEPT ![w] = "failed"]
          /\ UNCHANGED <<pipe, childVars, signals, exitVars, threadVars, callerVars>>
      BY <1>3, <2>2 DEF WriteBytes
    <3>2. TypeOK'
      <4>1. dead' \in BOOLEAN /\ stdinOpen' \in BOOLEAN
        BY <3>1, Zenon
      <4>. QED
        BY <3>1, <4>1
    <3>3. GivenUp'
      BY <3>1 DEF GivenUp
    <3>. QED
      BY <2>2, <3>1, <3>2, <3>3 DEF StdinKept, WaiterKnows, EarlyEnds, DeadIsTrue, Wholesome
  <2>. QED
    BY <2>1, <2>2
<1>. QED
  BY <1>1, <1>2, <1>3 DEF Write

\* The steps of the reader and the wait thread.
LEMMA ThreadKeeps ==
  ASSUME BridgeIInv,
         \/ ReaderGets("msg")
         \/ "spew" \in prone /\ ReaderGets("fatal")
         \/ ReaderSends \/ ReaderEof \/ WaitReaps \/ WaitFlags \/ WaitStores
  PROVE  BridgeIInv'
<1>. USE DEF BridgeIInv, TypeOK, childVars, stdinVars, exitVars, threadVars, callerVars,
             MarksDead
<1>1. CASE ReaderGets("msg")
  BY <1>1 DEF ReaderGets, StdinKept, WaiterKnows, EarlyEnds, DeadIsTrue, GivenUp, Wholesome
<1>2. CASE "spew" \in prone /\ ReaderGets("fatal")
  BY <1>2 DEF ReaderGets, StdinKept, WaiterKnows, EarlyEnds, DeadIsTrue, GivenUp, Wholesome
<1>3. CASE ReaderSends
  BY <1>3 DEF ReaderSends, ChanHasRoom, StdinKept, WaiterKnows, EarlyEnds, DeadIsTrue,
              GivenUp, Wholesome
<1>4. CASE ReaderEof
  BY <1>4 DEF ReaderEof, StdinKept, WaiterKnows, EarlyEnds, DeadIsTrue, GivenUp, Wholesome
<1>5. CASE WaitReaps
  BY <1>5 DEF WaitReaps, StdinKept, WaiterKnows, EarlyEnds, DeadIsTrue, GivenUp, Wholesome
<1>6. CASE WaitFlags
  BY <1>6 DEF WaitFlags, StdinKept, WaiterKnows, EarlyEnds, DeadIsTrue, GivenUp, Wholesome
<1>7. CASE WaitStores
  BY <1>7 DEF WaitStores, StdinKept, WaiterKnows, EarlyEnds, DeadIsTrue, GivenUp, Wholesome
<1>. QED
  BY <1>1, <1>2, <1>3, <1>4, <1>5, <1>6, <1>7

\* The steps of kill(): one that is over saw the flag, found the process
\* reaped, or sent SIGKILL.
LEMMA KillerKeeps ==
  ASSUME BridgeIInv, NEW k \in Killers, StartKill(k) \/ Kill(k)
  PROVE  BridgeIInv'
<1>. USE DEF BridgeIInv, TypeOK, childVars, stdinVars, exitVars, threadVars, callerVars,
             KillStep
<1>1. CASE StartKill(k)
  BY <1>1 DEF StartKill, KillEntry, StdinKept, WaiterKnows, EarlyEnds, DeadIsTrue, GivenUp,
              Wholesome
<1>2. CASE KillCloseStdin(k)
  <2>1. stdinOpen' \in BOOLEAN
    BY <1>2, Zenon DEF KillCloseStdin
  <2>2. killer' = [killer EXCEPT ![k] = "term"]
        /\ UNCHANGED <<childVars, signals, stdinLock, pipe, writer, dead, exitVars, threadVars,
                       relay, seen, dropper>>
    BY <1>2 DEF KillCloseStdin
  <2>3. TypeOK'
    BY <2>1, <2>2
  <2>. QED
    BY <2>2, <2>3 DEF StdinKept, WaiterKnows, EarlyEnds, DeadIsTrue, GivenUp, Wholesome
<1>3. CASE KillTerm(k)
  <2>1. killer' \in {[killer EXCEPT ![k] = "poll"]}
          \cup {f \in {[killer EXCEPT ![k] = "done"]} : proc = "reaped"}
    BY <1>3 DEF KillTerm
  <2>2. signals' \in {signals, signals \cup {"TERM"}}
        /\ UNCHANGED <<childVars, stdinVars, dead, exitVars, threadVars, relay, seen, dropper>>
    BY <1>3 DEF KillTerm
  <2>3. TypeOK'
    BY <2>1, <2>2
  <2>4. GivenUp => GivenUp'
    BY <2>2 DEF GivenUp, Wholesome
  <2>. QED
    BY <2>1, <2>2, <2>3, <2>4 DEF StdinKept, WaiterKnows, EarlyEnds, DeadIsTrue, Wholesome
<1>4. CASE KillSeesDead(k)
  BY <1>4 DEF KillSeesDead, StdinKept, WaiterKnows, EarlyEnds, DeadIsTrue, GivenUp, Wholesome
<1>5. CASE KillTimeout(k)
  BY <1>5 DEF KillTimeout, EscalationSignal, StdinKept, WaiterKnows, EarlyEnds, DeadIsTrue,
              GivenUp, Wholesome
<1>. QED
  BY <1>1, <1>2, <1>3, <1>4, <1>5 DEF Kill

\* The steps of the consumer and of Drop.
LEMMA OwnerKeeps ==
  ASSUME BridgeIInv,
         \/ Consume \/ ConsumerEnds \/ ReadExitCode
         \/ Drop \/ DropPolled \/ DropJoins \/ UNCHANGED cvars
  PROVE  BridgeIInv'
<1>. USE DEF BridgeIInv, TypeOK, childVars, stdinVars, exitVars, threadVars, callerVars,
             EscalationSignal
<1>1. CASE Consume
  BY <1>1 DEF Consume, StdinKept, WaiterKnows, EarlyEnds, DeadIsTrue, GivenUp, Wholesome
<1>2. CASE ConsumerEnds
  BY <1>2 DEF ConsumerEnds, StdinKept, WaiterKnows, EarlyEnds, DeadIsTrue, GivenUp, Wholesome
<1>3. CASE ReadExitCode
  BY <1>3 DEF ReadExitCode, StdinKept, WaiterKnows, EarlyEnds, DeadIsTrue, GivenUp, Wholesome
<1>4. CASE Drop
  <2>1. dropper' \in {"join", "poll"} /\ signals' \in {signals, signals \cup {"TERM"}}
        /\ UNCHANGED <<childVars, stdinVars, dead, exitVars, threadVars, killer, relay, seen>>
    BY <1>4 DEF Drop
  <2>2. TypeOK'
    BY <2>1
  <2>3. GivenUp => GivenUp'
    BY <2>1 DEF GivenUp, Wholesome
  <2>. QED
    BY <2>1, <2>2, <2>3 DEF StdinKept, WaiterKnows, EarlyEnds, DeadIsTrue, Wholesome
<1>5. CASE DropPolled
  BY <1>5 DEF DropPolled, StdinKept, WaiterKnows, EarlyEnds, DeadIsTrue, GivenUp, Wholesome
<1>6. CASE DropJoins
  BY <1>6 DEF DropJoins, StdinKept, WaiterKnows, EarlyEnds, DeadIsTrue, GivenUp, Wholesome
<1>7. CASE UNCHANGED cvars
  BY <1>7 DEF cvars, StdinKept, WaiterKnows, EarlyEnds, DeadIsTrue, GivenUp, Wholesome
<1>. QED
  BY <1>1, <1>2, <1>3, <1>4, <1>5, <1>6, <1>7

-----------------------------------------------------------------------------
(* The theorems                                                            *)

\* BridgeIInv is an invariant of the bridge.
THEOREM BridgeInvariant == Spec => []BridgeIInv
<1>1. BridgeIInv /\ [Next]_cvars => BridgeIInv'
  <2>. SUFFICES ASSUME BridgeIInv, [Next]_cvars PROVE BridgeIInv'
    OBVIOUS
  <2>1. CASE UNCHANGED cvars
    BY <2>1, OwnerKeeps
  <2>2. CASE Next
    BY <2>2, ChildKeeps, WriterKeeps, ThreadKeeps, KillerKeeps, OwnerKeeps
       DEF Next, Threads, Disposed
  <2>. QED
    BY <2>1, <2>2
<1>. QED
  BY <1>1, BridgeInitially, PTL DEF Spec

\* A wholesome child that is marked dead has ended.
THEOREM DeadFlagIsTrue == Spec => []DeadIsTrue
<1>1. BridgeIInv => DeadIsTrue
  BY DEF BridgeIInv
<1>. QED
  BY <1>1, BridgeInvariant, PTL

\* The relay misses the exit code only in the windows that ExitCodeIsFound
\* names, whatever its kill() and the wait thread do in between.
THEOREM ExitCodeCorrect == Spec => ExitCodeIsFound
<1>1. BridgeIInv /\ [Next]_cvars =>
        [seen' = "none" /\ seen = "unread" /\ how = "code"
           => \/ status = "error"
              \/ waiter = "waiting" /\ proc = "reaped"
              \/ waiter \in {"flag", "store"}
              \/ waiter = "waiting" /\ GivenUp]_cvars
  <2>. SUFFICES ASSUME BridgeIInv, [Next]_cvars, seen' = "none", seen = "unread", how = "code",
                       status # "error", waiter = "waiting" => proc # "reaped" /\ ~GivenUp,
                       waiter \notin {"flag", "store"}
                PROVE  FALSE
    OBVIOUS
  <2>1. ReadExitCode
    BY DEF Next, Threads, ChildReads, ChildExits, ChildObeys, ChildEnds, ChildCloses, ReapZombie,
           WriteCheck, Write, WriteLock, WriteBytes, ReaderGets, ReaderSends, ReaderEof,
           WaitReaps, WaitFlags, WaitStores, StartKill, Kill, KillStep, KillCloseStdin, KillTerm,
           KillSeesDead, KillTimeout, Consume, ConsumerEnds, Drop, DropPolled, DropJoins,
           Disposed, callerVars, cvars
  <2>2. killer["relay"] = "done" /\ exitCode = "none"
    BY <2>1 DEF ReadExitCode
  <2>3. waiter # "done"
    BY <2>2 DEF BridgeIInv, WaiterKnows
  <2>4. waiter = "waiting"
    BY <2>3 DEF BridgeIInv, TypeOK
  <2>. QED
    BY <2>2, <2>4 DEF BridgeIInv, EarlyEnds, GivenUp, Killers
<1>. QED
  BY <1>1, BridgeInvariant, PTL DEF Spec, ExitCodeIsFound
=============================================================================
